---- MODULE Spec2Model ----
(***************************************************************************)
(* Model of the control plane of SeyalTeam/vserver                         *)
(* (apps/control-plane/src/index.ts): the GitHub webhook handler, the      *)
(* per-key auto-deploy queue, the read endpoints of the access log and of  *)
(* the deployment tracker, and the quoting of the deploy script.           *)
(*                                                                         *)
(* Strings whose content the code inspects (trim, toLowerCase, startsWith, *)
(* slice, regular expressions) are sequences of one-character strings.     *)
(* A JavaScript value that may be undefined is a record                    *)
(* [present, value].                                                       *)
(***************************************************************************)
EXTENDS Integers, Sequences, FiniteSets, TLC

VARIABLES
    processEnv,               \* index.ts:199-249, the environment variables the process reads
    autoDeployEnabled,        \* index.ts:238
    autoDeployWebhookToken,   \* index.ts:239
    githubWebhookSecret,      \* index.ts:240
    autoDeployProjects,       \* index.ts:250, the registry
    autoDeployQueues,         \* index.ts:259, queue key -> jobId of the promise stored
    jobs,                     \* every promise `next` created by queueAutoDeploy, by jobId
    exchange,                 \* the webhook request handled last and its reply, until flushed
    limitRead,                \* the last read of /v1/logs or /v1/deployments* and its reply
    shellRun,                 \* the last command line handed to a shell and what the shell made of it
    screenshotQueues,         \* index.ts:260, cache key -> id of the capture whose promise is stored
    captures,                 \* every subprocess spawned by captureScreenshot, by id
    screenshotRequests,       \* the handlers of /v1/deployments/latest/screenshot, in order of arrival
    screenshotFiles           \* the cache keys whose .png exists in the cache directory

configVars == <<processEnv, autoDeployEnabled, autoDeployWebhookToken, githubWebhookSecret,
                autoDeployProjects>>
queueVars == <<autoDeployQueues, jobs>>
screenshotVars == <<screenshotQueues, captures, screenshotRequests, screenshotFiles>>
vars == <<processEnv, autoDeployEnabled, autoDeployWebhookToken, githubWebhookSecret,
          autoDeployProjects, autoDeployQueues, jobs, exchange, limitRead, shellRun,
          screenshotQueues, captures, screenshotRequests, screenshotFiles>>

----------------------------------------------------------------------------
(* Bounds *)

MaxJobs == 3

----------------------------------------------------------------------------
(* Strings as sequences of characters *)

Absent == [present |-> FALSE, value |-> <<>>]

Some(s) == [present |-> TRUE, value |-> s]

\* `x ?? d` for a string x
OrElse(x, d) == IF x.present THEN x.value ELSE d

\* F(v) for a value v that is computed once: const v = ...; then the code that reads v
With(v, F(_)) == CHOOSE r \in {F(x) : x \in {v}} : TRUE

UpperLetters == <<"A","B","C","D","E","F","G","H","I","J","K","L","M",
                  "N","O","P","Q","R","S","T","U","V","W","X","Y","Z">>

LowerLetters == <<"a","b","c","d","e","f","g","h","i","j","k","l","m",
                  "n","o","p","q","r","s","t","u","v","w","x","y","z">>

Digits == {"0","1","2","3","4","5","6","7","8","9"}

LowerAlnum == {LowerLetters[i] : i \in DOMAIN LowerLetters} \cup Digits

Whitespace == {" "}

LowerOf == [c \in {UpperLetters[i] : i \in DOMAIN UpperLetters} |->
               LowerLetters[CHOOSE i \in DOMAIN UpperLetters : UpperLetters[i] = c]]

UpperOf == [c \in {LowerLetters[i] : i \in DOMAIN LowerLetters} |->
               UpperLetters[CHOOSE i \in DOMAIN LowerLetters : LowerLetters[i] = c]]

LowerChar(c) == IF c \in DOMAIN LowerOf THEN LowerOf[c] ELSE c

toLowerCase(s) == [i \in DOMAIN s |-> LowerChar(s[i])]

RECURSIVE trimStart(_)
trimStart(s) ==
    IF s # <<>> /\ Head(s) \in Whitespace THEN trimStart(Tail(s)) ELSE s

RECURSIVE trimEnd(_)
trimEnd(s) ==
    IF s # <<>> /\ s[Len(s)] \in Whitespace THEN trimEnd(SubSeq(s, 1, Len(s) - 1)) ELSE s

trim(s) == trimEnd(trimStart(s))

startsWith(s, p) == Len(s) >= Len(p) /\ SubSeq(s, 1, Len(p)) = p

endsWith(s, p) == Len(s) >= Len(p) /\ SubSeq(s, Len(s) - Len(p) + 1, Len(s)) = p

\* s.slice(n)
slice(s, n) == SubSeq(s, n + 1, Len(s))

includes(s, c) == \E i \in DOMAIN s : s[i] = c

\* s.split(sep).filter((segment) => segment.length > 0).at(-1), <<>> when there is none
RECURSIVE lastSegmentFrom(_, _, _)
lastSegmentFrom(s, cur, last) ==
    IF s = <<>> THEN (IF cur # <<>> THEN cur ELSE last)
    ELSE IF Head(s) = "/"
         THEN lastSegmentFrom(Tail(s), <<>>, IF cur # <<>> THEN cur ELSE last)
         ELSE lastSegmentFrom(Tail(s), Append(cur, Head(s)), last)

SelectAlnum(s) == SelectSeq(s, LAMBDA c : c \in LowerAlnum)

\* .replace(/[^a-z0-9]+/g, "-"): every maximal run of other characters becomes one "-"
RECURSIVE replaceRunsWithHyphen(_, _)
replaceRunsWithHyphen(s, inRun) ==
    IF s = <<>> THEN <<>>
    ELSE IF Head(s) \in LowerAlnum
         THEN <<Head(s)>> \o replaceRunsWithHyphen(Tail(s), FALSE)
         ELSE IF inRun THEN replaceRunsWithHyphen(Tail(s), TRUE)
              ELSE <<"-">> \o replaceRunsWithHyphen(Tail(s), TRUE)

\* .replace(/^-+|-+$/g, "")
RECURSIVE stripHyphensStart(_)
stripHyphensStart(s) ==
    IF s # <<>> /\ Head(s) = "-" THEN stripHyphensStart(Tail(s)) ELSE s

RECURSIVE stripHyphensEnd(_)
stripHyphensEnd(s) ==
    IF s # <<>> /\ s[Len(s)] = "-" THEN stripHyphensEnd(SubSeq(s, 1, Len(s) - 1)) ELSE s

\* variant: every other character becomes a "-" of its own, /[^a-z0-9]/g
normalizeProject_EachChar(input) ==
    stripHyphensEnd(stripHyphensStart(
        [i \in DOMAIN toLowerCase(trim(input)) |->
            IF toLowerCase(trim(input))[i] \in LowerAlnum THEN toLowerCase(trim(input))[i] ELSE "-"]))

normalizeProject(input) ==
    stripHyphensEnd(stripHyphensStart(replaceRunsWithHyphen(toLowerCase(trim(input)), FALSE)))

DotGit == <<".","g","i","t">>

canonicalRepoName(input) ==
    LET t == trim(input)
        trimmed == IF endsWith(toLowerCase(t), DotGit) THEN SubSeq(t, 1, Len(t) - Len(DotGit)) ELSE t
        seg == lastSegmentFrom(trimmed, <<>>, <<>>)
        lastSegment == IF seg # <<>> THEN seg ELSE trimmed
    IN  SelectAlnum(toLowerCase(lastSegment))

asNonEmptyString(value) == IF value.present THEN trim(value.value) ELSE <<>>

toUpperCase(s) == [i \in DOMAIN s |-> IF s[i] \in DOMAIN UpperOf THEN UpperOf[s[i]] ELSE s[i]]

\* s.includes(sub) for a string sub
includesText(s, sub) ==
    \E i \in 0..(Len(s) - Len(sub)) : SubSeq(s, i + 1, i + Len(sub)) = sub

\* s.split(sep) for a one-character separator: the pieces in order, empty ones included
RECURSIVE splitFrom(_, _, _)
splitFrom(s, sep, cur) ==
    IF s = <<>> THEN <<cur>>
    ELSE IF Head(s) = sep THEN <<cur>> \o splitFrom(Tail(s), sep, <<>>)
         ELSE splitFrom(Tail(s), sep, Append(cur, Head(s)))

split(s, sep) == splitFrom(s, sep, <<>>)

\* s.split(sep)[0]: the part of s before its first separator, s when it holds none
firstPiece(s, sep) ==
    LET cuts == {i \in DOMAIN s : s[i] = sep}
    IN  IF cuts = {} THEN s
        ELSE SubSeq(s, 1, (CHOOSE i \in cuts : \A k \in cuts : i <= k) - 1)

\* [...new Set(list)]: the first occurrence of every element, in order
RECURSIVE unique(_)
unique(list) ==
    IF list = <<>> THEN <<>>
    ELSE LET front == unique(SubSeq(list, 1, Len(list) - 1))
             last == list[Len(list)]
         IN  IF \E i \in DOMAIN front : front[i] = last THEN front ELSE Append(front, last)

\* the number of digits the string ends with
RECURSIVE digitsSuffixLen(_)
digitsSuffixLen(s) ==
    IF s # <<>> /\ s[Len(s)] \in Digits THEN 1 + digitsSuffixLen(SubSeq(s, 1, Len(s) - 1)) ELSE 0

HttpScheme == <<"h", "t", "t", "p", ":", "/", "/">>

HttpsScheme == <<"h", "t", "t", "p", "s", ":", "/", "/">>

normalizeHost(rawHost) ==
    LET lowered == toLowerCase(trim(rawHost))
        \* .replace(/^https?:\/\//, "")
        noScheme == IF startsWith(lowered, HttpScheme) THEN slice(lowered, Len(HttpScheme))
                    ELSE IF startsWith(lowered, HttpsScheme) THEN slice(lowered, Len(HttpsScheme))
                    ELSE lowered
        \* .replace(/\/.*$/, "")
        noPath == firstPiece(noScheme, "/")
        \* .replace(/:\d+$/, "")
        port == digitsSuffixLen(noPath)
    IN  IF port > 0 /\ Len(noPath) > port /\ noPath[Len(noPath) - port] = ":"
        THEN SubSeq(noPath, 1, Len(noPath) - port - 1)
        ELSE noPath

\* asDomainList for a comma-separated string; a value that is not a string gives no domain
RECURSIVE normalizeHosts(_)
normalizeHosts(list) ==
    IF list = <<>> THEN <<>>
    ELSE (IF normalizeHost(Head(list)) # <<>> THEN <<normalizeHost(Head(list))>> ELSE <<>>)
         \o normalizeHosts(Tail(list))

asDomainList(value) == IF value.present THEN normalizeHosts(split(value.value, ",")) ELSE <<>>

----------------------------------------------------------------------------
(* Process environment *)

\* No variable is set. perProject holds the variables whose name is built from a project
\* slug, as pairs <<name, value>>.
EnvUnset ==
    [DEPLOY_TRACKER_REMOTE_HOST |-> Absent, AUTO_DEPLOY_REMOTE_HOST |-> Absent,
     REQUEST_LOG_REMOTE_HOST |-> Absent, CONTROL_PLANE_SERVER_HOST |-> Absent,
     CONTROL_PLANE_PUBLIC_URL |-> Absent, DASHBOARD_PUBLIC_URL |-> Absent,
     KANI_TAXI_PREVIEW_URL |-> Absent, perProject |-> {}]

\* process.env[name] for a name built from a project slug
envOf(name) ==
    IF \E pair \in processEnv.perProject : pair[1] = name
    THEN Some((CHOOSE pair \in processEnv.perProject : pair[1] = name)[2])
    ELSE Absent

\* projectSlug.replace(/-/g, "_").toUpperCase()
envPrefix(projectSlug) ==
    toUpperCase([i \in DOMAIN projectSlug |-> IF projectSlug[i] = "-" THEN "_" ELSE projectSlug[i]])

fallbackProjectSlug == <<"k", "a", "n", "i", "-", "t", "a", "x", "i">>

fallbackProjectName == <<"K", "A", "N", "I", " ", "T", "A", "X", "I">>

\* os.hostname()
osHostname == <<"v", "p", "s", "1">>

remoteTrackerHost == processEnv.DEPLOY_TRACKER_REMOTE_HOST

localServerHost == OrElse(processEnv.CONTROL_PLANE_SERVER_HOST, osHostname)

\* CONTROL_PLANE_HOST and CONTROL_PLANE_PORT are unset
controlPlanePublicUrl == OrElse(processEnv.CONTROL_PLANE_PUBLIC_URL, <<"h", "t", "t", "p", ":", "/", "/", "l", "o", "c", "a", "l", "h", "o", "s", "t", ":", "3", "0", "0", "0">>)

dashboardPublicUrl == OrElse(processEnv.DASHBOARD_PUBLIC_URL, <<"h", "t", "t", "p", ":", "/", "/", "l", "o", "c", "a", "l", "h", "o", "s", "t", ":", "5", "1", "7", "3">>)

\* new URL(value).hostname and normalizeHost(value) agree on scheme://host[:port][/path]
hostFromMaybeUrl(rawValue) == IF trim(rawValue) = <<>> THEN <<>> ELSE normalizeHost(trim(rawValue))

dashboardKnownHosts ==
    {normalizeHost(localServerHost), hostFromMaybeUrl(controlPlanePublicUrl),
     hostFromMaybeUrl(dashboardPublicUrl)} \ {<<>>}

defaultScreenshotTargetUrl == trim(OrElse(processEnv.KANI_TAXI_PREVIEW_URL, <<"h", "t", "t", "p", "s", ":", "/", "/", "k", "a", "n", "i", "t", "a", "x", "i", ".", "c", "o", "m">>))

autoDeployDefaultRemoteHost ==
    trim(OrElse(processEnv.AUTO_DEPLOY_REMOTE_HOST, OrElse(remoteTrackerHost, <<>>)))

\* `|| undefined`: the empty string stands for undefined
requestLogRemoteHost == trim(OrElse(processEnv.REQUEST_LOG_REMOTE_HOST, autoDeployDefaultRemoteHost))

----------------------------------------------------------------------------
(* Project registry *)

\* One element of the AUTO_DEPLOY_PROJECTS array, before validation.
RawEntry(name, repo, branch, path, cmd, host) ==
    [projectName |-> name, repository |-> repo, branch |-> branch,
     repoPath |-> path, deployCommand |-> cmd, remoteHost |-> host, domains |-> Absent]

\* the entry with a `domains` string
WithDomains(record, domains) == [record EXCEPT !.domains = Some(domains)]

BranchMain == <<"m","a","i","n">>

BranchDev == <<"d","e","v">>

BranchAny == <<"*">>

EntryValid(record) ==
    /\ asNonEmptyString(record.projectName) # <<>>
    /\ asNonEmptyString(record.repository) # <<>>
    /\ asNonEmptyString(record.repoPath) # <<>>
    /\ asNonEmptyString(record.deployCommand) # <<>>
    /\ canonicalRepoName(asNonEmptyString(record.repository)) # <<>>

ProjectOfEntry(record, defaultRemoteHost) ==
    [projectName |-> asNonEmptyString(record.projectName),
     projectSlug |-> normalizeProject(asNonEmptyString(record.projectName)),
     repository |-> asNonEmptyString(record.repository),
     repositoryCanonical |-> canonicalRepoName(asNonEmptyString(record.repository)),
     branch |-> IF asNonEmptyString(record.branch) # <<>>
                THEN asNonEmptyString(record.branch) ELSE BranchMain,
     repoPath |-> asNonEmptyString(record.repoPath),
     deployCommand |-> asNonEmptyString(record.deployCommand),
     remoteHost |-> IF asNonEmptyString(record.remoteHost) # <<>>
                    THEN asNonEmptyString(record.remoteHost) ELSE defaultRemoteHost,
     domains |-> unique(asDomainList(record.domains))]

RECURSIVE parseAutoDeployProjects(_, _)
parseAutoDeployProjects(parsed, defaultRemoteHost) ==
    IF parsed = <<>> THEN <<>>
    ELSE IF EntryValid(Head(parsed))
         THEN <<ProjectOfEntry(Head(parsed), defaultRemoteHost)>>
              \o parseAutoDeployProjects(Tail(parsed), defaultRemoteHost)
         ELSE parseAutoDeployProjects(Tail(parsed), defaultRemoteHost)

\* The entries the configurations of the model are built from.
EntryAcmeMain ==
    RawEntry(Some(<<"A","c","m","e">>), Some(<<"o","/","a">>), Some(BranchMain),
             Some(<<"/","a">>), Some(<<"x">>), Absent)

EntryAcmeDev ==
    RawEntry(Some(<<"A","c","m","e">>), Some(<<"o","/","a">>), Some(BranchDev),
             Some(<<"/","a">>), Some(<<"x">>), Absent)

EntryBetaAny ==
    RawEntry(Some(<<"B","e","t","a"," ","2">>), Some(<<"B",".","g","i","t">>), Some(BranchAny),
             Some(<<"/","b">>), Some(<<"x">>), Some(<<"u","@","h">>))

EntryBareDefault ==
    RawEntry(Some(<<"b","a","r","e">>), Some(<<"a">>), Absent,
             Some(<<"/","c">>), Some(<<"x">>), Absent)

EntryAcmeAny ==
    RawEntry(Some(<<"a","n","y">>), Some(<<"O","/","A">>), Some(BranchAny),
             Some(<<"/","a">>), Some(<<"x">>), Absent)

EntryNoPath ==
    RawEntry(Some(<<"n","o">>), Some(<<"o","/","a">>), Some(BranchMain),
             Some(<<" ">>), Some(<<"x">>), Absent)

RegistryEmpty == <<>>

RegistryAcmeBeta == <<EntryAcmeMain, EntryBetaAny>>

RegistryTwoBranches == <<EntryAcmeMain, EntryAcmeDev>>

RegistryOrdered == <<EntryNoPath, EntryAcmeDev, EntryBareDefault, EntryAcmeAny>>

QueueRegistries == {RegistryAcmeBeta, RegistryTwoBranches}

WebhookRegistries == {RegistryEmpty, RegistryAcmeBeta, RegistryOrdered}

----------------------------------------------------------------------------
(* Webhook requests *)

RefsHeads == <<"r","e","f","s","/","h","e","a","d","s","/">>

RefTag == <<"r","e","f","s","/","t","a","g","s","/","m","a","i","n">>

\* variant: the branch is whatever follows the last "/" of the ref
branchFromRef_AnyRef(ref) == lastSegmentFrom(trim(OrElse(ref, <<>>)), <<>>, <<>>)

branchFromRef(ref) ==
    LET rawRef == trim(OrElse(ref, <<>>))
    IN  IF ~startsWith(rawRef, RefsHeads) THEN <<>> ELSE slice(rawRef, Len(RefsHeads))

Repository(name, fullName) == [present |-> TRUE, name |-> name, full_name |-> fullName]

NoRepository == [present |-> FALSE, name |-> Absent, full_name |-> Absent]

Payload(ref, deleted, repository) ==
    [isObject |-> TRUE, ref |-> ref, deleted |-> deleted, repository |-> repository]

\* a body that is missing or is not a JSON object
NotAnObject == [isObject |-> FALSE, ref |-> Absent, deleted |-> FALSE, repository |-> NoRepository]

RefValues == <<Absent, Some(RefsHeads \o BranchMain), Some(RefsHeads \o BranchDev),
               Some(RefTag), Some(RefsHeads), Some(<<" ">> \o RefsHeads \o BranchMain)>>

RepositoryValues ==
    <<NoRepository,
      Repository(Some(<<"a">>), Some(<<"o","/","a">>)),
      Repository(Some(<<"A">>), Some(<<"O","/","a">>)),
      Repository(Absent, Some(<<"o","/","a">>)),
      Repository(Some(<<"b">>), Absent),
      Repository(Some(<<"a">>), Some(<<"z","/","a">>)),
      Repository(Some(<<"c">>), Some(<<"o","/","c">>))>>

Range(f) == {f[i] : i \in DOMAIN f}

Payloads == {Payload(r, d, repo) : r \in Range(RefValues), d \in BOOLEAN, repo \in Range(RepositoryValues)}

----------------------------------------------------------------------------
(* Webhook authentication *)

TokenGood == <<"t">>

SecretGood == <<"s">>

SecretOther == <<"w">>

SecretValues == <<SecretGood, SecretOther>>

HexDigits == <<"0","1","2","3","4","5","6","7","8","9","a","b","c","d","e","f">>

SignatureHexLength == 64

IndexOf(seq, v) == CHOOSE i \in DOMAIN seq : seq[i] = v

\* The text of a JSON body: the value it parses to and the way it is written out.
\* "compact" is the text JSON.stringify prints for the value; "spaced" is a text of the
\* same value with blanks between its tokens.
Layouts == <<"compact", "spaced">>

BodyText(payload, layout) == [payload |-> payload, layout |-> layout]

\* the content-type parser of the framework: request.body is the parsed value
JSONparse(text) == text.payload

JSONstringify(payload) == BodyText(payload, "compact")

\* createHmac("sha256", secret).update(text).digest("hex"): 64 lower-case hexadecimal
\* characters, different for different (secret, text) pairs.
hmacSha256Hex(secret, text) ==
    [i \in 1..(SignatureHexLength - 5) |-> "0"]
    \o <<HexDigits[IndexOf(SecretValues, secret)],
         HexDigits[IndexOf(Layouts, text.layout)],
         HexDigits[IndexOf(RefValues, text.payload.ref)],
         HexDigits[IF text.payload.deleted THEN 2 ELSE 1],
         HexDigits[IndexOf(RepositoryValues, text.payload.repository)]>>

Sha256Prefix == <<"s","h","a","2","5","6","=">>

IsHexString(s) == \A i \in DOMAIN s : LowerChar(s[i]) \in Range(HexDigits)

verifyGitHubSignature(signatureHeader, payload, secret) ==
    LET trimmedSignature == trim(signatureHeader)
        signatureHex == slice(trimmedSignature, Len(Sha256Prefix))
    IN  /\ startsWith(trimmedSignature, Sha256Prefix)
        /\ Len(signatureHex) = SignatureHexLength
        /\ IsHexString(signatureHex)
        \* Buffer.from(hex, "hex") reads both cases; timingSafeEqual compares the bytes
        /\ toLowerCase(signatureHex) = hmacSha256Hex(secret, JSONstringify(payload))

extractHeaderValue(value) == trim(OrElse(value, <<>>))

----------------------------------------------------------------------------
(* Requests *)

\* `body` is request.body, the parsed value; `rawBody` is the layout of the text received
Request(event, token, signature, body) ==
    [event |-> event, token |-> token, signature |-> signature, body |-> body,
     rawBody |-> "compact"]

\* the same request with its body written out in another layout
WithRawBody(req, layout) == [req EXCEPT !.rawBody = layout]

\* the body as received
RawBodyOf(req) == BodyText(req.body, req.rawBody)

EventPush == <<"P","U","S","H">>

EventPing == <<"P","i","n","g">>

EventOther == <<"i","s","s","u","e","s">>

EventNamePush == <<"p","u","s","h">>

EventNamePing == <<"p","i","n","g">>

Events == {Some(EventNamePush), Some(EventPing), Some(EventOther), Absent}

Tokens == {Absent, Some(TokenGood), Some(<<" ">> \o TokenGood \o <<" ">>), Some(<<"x">>)}

SignaturesFor(body) ==
    {Absent,
     Some(Sha256Prefix \o hmacSha256Hex(SecretGood, JSONstringify(body))),
     Some(Sha256Prefix \o hmacSha256Hex(SecretOther, JSONstringify(body))),
     Some(Sha256Prefix \o Tail(hmacSha256Hex(SecretGood, JSONstringify(body))))}

GoodPush == Payload(RefValues[2], FALSE, RepositoryValues[2])

ProbeBodies == {NotAnObject, GoodPush, Payload(RefValues[4], TRUE, NoRepository)}

\* every credential with every event on a few bodies, and every body with good credentials
Requests ==
    {Request(e, t, Absent, b) : e \in Events, t \in Tokens, b \in ProbeBodies}
    \cup UNION {{Request(e, t, sig, b) : e \in Events, t \in {Absent, Some(TokenGood)},
                                       sig \in SignaturesFor(b)} : b \in ProbeBodies}
    \cup {Request(Some(EventPush), Some(TokenGood),
                  Some(Sha256Prefix \o hmacSha256Hex(SecretGood, JSONstringify(b))), b) : b \in Payloads}
    \cup {WithRawBody(Request(Some(EventPush), Absent,
                              Some(Sha256Prefix \o hmacSha256Hex(SecretGood, BodyText(GoodPush, layout))),
                              GoodPush), "spaced") : layout \in Range(Layouts)}

\* accepted-looking pushes for the configurations of the queue
QueueRequests ==
    {Request(Some(EventPush), Some(TokenGood), Absent, Payload(r, FALSE, repo)) :
        r \in {RefValues[2], RefValues[3]}, repo \in {RepositoryValues[2], RepositoryValues[5]}}

----------------------------------------------------------------------------
(* Project matching *)

\* variant: the canonical names are compared whatever the configured repository
RepoMatches_CanonicalOnly(project, incomingFullName, incomingRepoCanonical) ==
    project.repositoryCanonical = incomingRepoCanonical

RepoMatches(project, incomingFullName, incomingRepoCanonical) ==
    LET configuredRepo == toLowerCase(project.repository)
    IN  IF includes(configuredRepo, "/")
        THEN configuredRepo = incomingFullName
        ELSE project.repositoryCanonical = incomingRepoCanonical

\* the loop of findAutoDeployProject from index i on; 0 is null
RECURSIVE findFrom(_, _, _, _, _)
findFrom(projects, i, incomingFullName, incomingRepoCanonical, branch) ==
    IF i > Len(projects) THEN 0
    ELSE IF ~RepoMatches(projects[i], incomingFullName, incomingRepoCanonical)
         THEN findFrom(projects, i + 1, incomingFullName, incomingRepoCanonical, branch)
         ELSE IF projects[i].branch # BranchAny /\ projects[i].branch # branch
              THEN findFrom(projects, i + 1, incomingFullName, incomingRepoCanonical, branch)
              ELSE i

\* returns the index of the project in the registry, 0 for null
findAutoDeployProject(projects, repositoryName, repositoryFullName, branch) ==
    findFrom(projects, 1,
             toLowerCase(trim(repositoryFullName)),
             canonicalRepoName(IF repositoryName # <<>> THEN repositoryName ELSE repositoryFullName),
             branch)

----------------------------------------------------------------------------
(* The auto-deploy queue *)

EmptyQueues == [k \in {} |-> 0]

QueueKey(project) == <<project.projectSlug, project.branch>>

\* variant: the job is chained on nothing, as if the map were never consulted
PreviousOf_Unchained(queues, queueKey) == 0

\* autoDeployQueues.get(queueKey) ?? Promise.resolve(); 0 is the resolved promise
PreviousOf(queues, queueKey) ==
    IF queueKey \in DOMAIN queues THEN queues[queueKey] ELSE 0

\* variant: the script is spawned inside queueAutoDeploy when nothing precedes the job
NewJob_StartedInline(projectIndex, queueKey, context, previous) ==
    [project |-> projectIndex, queueKey |-> queueKey, branch |-> context.branch,
     previous |-> previous,
     script |-> IF previous = 0 THEN "running" ELSE "pending",
     promise |-> "pending", finalized |-> FALSE]

\* the promise `next` of a job: the script has not started, nothing has settled; of the
\* context only the branch reaches the script, the other fields are logged
NewJob(projectIndex, queueKey, context, previous) ==
    [project |-> projectIndex, queueKey |-> queueKey, branch |-> context.branch,
     previous |-> previous,
     script |-> "pending", promise |-> "pending", finalized |-> FALSE]

QueuesSet(queues, queueKey, jobId) ==
    [k \in DOMAIN queues \cup {queueKey} |-> IF k = queueKey THEN jobId ELSE queues[k]]

QueuesDelete(queues, queueKey) ==
    [k \in DOMAIN queues \ {queueKey} |-> queues[k]]

\* variant: the .then is attached to `previous` itself
CatchUndefined_Missing(promiseState) == promiseState

\* previous.catch(() => undefined): the state of the promise the .then is attached to
CatchUndefined(promiseState) ==
    IF promiseState = "rejected" THEN "fulfilled" ELSE promiseState

PromiseState(jobId) == IF jobId = 0 THEN "fulfilled" ELSE jobs[jobId].promise

\* the synchronous part of queueAutoDeploy; the jobId is the index of the job
queueAutoDeploy(projectIndex, context) ==
    LET queueKey == QueueKey(autoDeployProjects[projectIndex])
        jobId == Len(jobs) + 1
        previous == PreviousOf(autoDeployQueues, queueKey)
    IN  /\ jobs' = Append(jobs, NewJob(projectIndex, queueKey, context, previous))
        /\ autoDeployQueues' = QueuesSet(autoDeployQueues, queueKey, jobId)

\* variant: a job whose script failed is started again
StartJob_RetryFailed(j) ==
    /\ j \in DOMAIN jobs
    /\ \/ /\ jobs[j].script = "pending"
          /\ jobs[j].promise = "pending"
          /\ PromiseState(jobs[j].previous) # "pending"
          /\ jobs' = IF CatchUndefined(PromiseState(jobs[j].previous)) = "fulfilled"
                     THEN [jobs EXCEPT ![j].script = "running"]
                     ELSE [jobs EXCEPT ![j].promise = "rejected"]
       \/ /\ jobs[j].script = "exited"
          /\ jobs[j].promise = "rejected"
          /\ ~jobs[j].finalized
          /\ jobs' = [jobs EXCEPT ![j].script = "running", ![j].promise = "pending"]
    /\ UNCHANGED <<configVars, autoDeployQueues, exchange, limitRead, shellRun, screenshotVars>>

\* The callback of .then runs once `previous` has settled: it logs "auto deploy started"
\* and calls runAutoDeploy, which spawns the script. A rejection that reached the .then
\* would skip the callback and reject `next`.
StartJob(j) ==
    /\ j \in DOMAIN jobs
    /\ jobs[j].script = "pending"
    /\ jobs[j].promise = "pending"
    /\ PromiseState(jobs[j].previous) # "pending"
    /\ jobs' = IF CatchUndefined(PromiseState(jobs[j].previous)) = "fulfilled"
               THEN [jobs EXCEPT ![j].script = "running"]
               ELSE [jobs EXCEPT ![j].promise = "rejected"]
    /\ UNCHANGED <<configVars, autoDeployQueues, exchange, limitRead, shellRun, screenshotVars>>

\* how execFileAsync of runAutoDeploy can settle: exit 0, a non-zero exit, the timeout
\* that kills the subprocess, and over ssh a connection failure; all but the first
\* reject the promise of runAutoDeploy, and with it `next`
ExitOutcomes(project) ==
    {"ok", "nonzero", "timeout"} \cup (IF project.remoteHost # <<>> THEN {"sshfail"} ELSE {})

ExitJob(j, outcome) ==
    /\ j \in DOMAIN jobs
    /\ jobs[j].script = "running"
    /\ outcome \in ExitOutcomes(autoDeployProjects[jobs[j].project])
    /\ jobs' = [jobs EXCEPT ![j].script = "exited",
                            ![j].promise = IF outcome = "ok" THEN "fulfilled" ELSE "rejected"]
    /\ UNCHANGED <<configVars, autoDeployQueues, exchange, limitRead, shellRun, screenshotVars>>

\* variant: the .finally is missing, the entry is never deleted
QueuesAfterFinally_KeepsEntry(queues, queueKey, jobId) == queues

\* variant: the entry is deleted without comparing it with `next`
QueuesAfterFinally_Unconditional(queues, queueKey, jobId) == QueuesDelete(queues, queueKey)

\* if (autoDeployQueues.get(queueKey) === next) autoDeployQueues.delete(queueKey)
QueuesAfterFinally(queues, queueKey, jobId) ==
    IF PreviousOf(queues, queueKey) = jobId THEN QueuesDelete(queues, queueKey) ELSE queues

\* next.catch(log "auto deploy failed").finally(...), once `next` has settled
FinalizeJob(j) ==
    /\ j \in DOMAIN jobs
    /\ jobs[j].promise # "pending"
    /\ ~jobs[j].finalized
    /\ jobs' = [jobs EXCEPT ![j].finalized = TRUE]
    /\ autoDeployQueues' = QueuesAfterFinally(autoDeployQueues, jobs[j].queueKey, j)
    /\ UNCHANGED <<configVars, exchange, limitRead, shellRun, screenshotVars>>

----------------------------------------------------------------------------
(* POST /v1/webhooks/github *)

Reply(status, body, reason) == [status |-> status, body |-> body, reason |-> reason, jobId |-> 0]

NoContext == [repositoryName |-> <<>>, repositoryFullName |-> <<>>, branch |-> <<>>]

Rejected(status, body, reason) ==
    [reply |-> Reply(status, body, reason), project |-> 0, context |-> NoContext]

\* variant: the token is compared only when the request carries one
TokenRejected_OnlyWhenPresent(req) ==
    /\ autoDeployWebhookToken # <<>>
    /\ req.token.present
    /\ trim(req.token.value) # autoDeployWebhookToken

\* if (autoDeployWebhookToken) { if ((query.token ?? "").trim() !== autoDeployWebhookToken) 401 }
TokenRejected(req) ==
    /\ autoDeployWebhookToken # <<>>
    /\ trim(OrElse(req.token, <<>>)) # autoDeployWebhookToken

\* else { if (!verifyGitHubSignature(signatureHeader, payload, githubWebhookSecret)) 401 }
SignatureRejected(req) ==
    /\ autoDeployWebhookToken = <<>>
    /\ ~verifyGitHubSignature(extractHeaderValue(req.signature), req.body, githubWebhookSecret)

\* variant: the feature flag is tested after the credentials
WebhookDecision_FlagAfterAuth(req) ==
    LET event == toLowerCase(extractHeaderValue(req.event))
        payload == req.body
        branch == branchFromRef(payload.ref)
        repositoryName ==
            IF payload.repository.present THEN trim(OrElse(payload.repository.name, <<>>)) ELSE <<>>
        repositoryFullName ==
            IF payload.repository.present
            THEN trim(OrElse(payload.repository.full_name, repositoryName))
            ELSE trim(repositoryName)
        project == findAutoDeployProject(autoDeployProjects, repositoryName, repositoryFullName, branch)
    IN  IF ~payload.isObject THEN Rejected(400, "error", "invalid payload")
        ELSE IF autoDeployWebhookToken = <<>> /\ githubWebhookSecret = <<>>
             THEN Rejected(500, "error", "auth missing")
        ELSE IF TokenRejected(req) THEN Rejected(401, "error", "invalid token")
        ELSE IF SignatureRejected(req) THEN Rejected(401, "error", "invalid signature")
        ELSE IF ~autoDeployEnabled THEN Rejected(503, "error", "disabled")
        ELSE IF event = EventNamePing THEN Rejected(200, "ok", "verified")
        ELSE IF event # EventNamePush THEN Rejected(202, "ignored", "unsupported event")
        ELSE IF Len(autoDeployProjects) = 0 THEN Rejected(500, "error", "projects empty")
        ELSE IF branch = <<>> THEN Rejected(202, "ignored", "not a branch")
        ELSE IF payload.deleted THEN Rejected(202, "ignored", "branch deleted")
        ELSE IF repositoryFullName = <<>> THEN Rejected(400, "error", "repository missing")
        ELSE IF project = 0 THEN Rejected(202, "ignored", "no matching project")
        ELSE [reply |-> Reply(202, "queued", "queued"), project |-> project,
              context |-> [repositoryName |-> repositoryName,
                           repositoryFullName |-> repositoryFullName, branch |-> branch]]

\* The handler up to the call of queueAutoDeploy: the reply, and the project and context
\* to queue when there is one (project 0: nothing is queued).
WebhookDecision(req) ==
    LET event == toLowerCase(extractHeaderValue(req.event))
        payload == req.body
        branch == branchFromRef(payload.ref)
        repositoryName ==
            IF payload.repository.present THEN trim(OrElse(payload.repository.name, <<>>)) ELSE <<>>
        repositoryFullName ==
            IF payload.repository.present
            THEN trim(OrElse(payload.repository.full_name, repositoryName))
            ELSE trim(repositoryName)
        project == findAutoDeployProject(autoDeployProjects, repositoryName, repositoryFullName, branch)
    IN  IF ~payload.isObject THEN Rejected(400, "error", "invalid payload")
        ELSE IF ~autoDeployEnabled THEN Rejected(503, "error", "disabled")
        ELSE IF autoDeployWebhookToken = <<>> /\ githubWebhookSecret = <<>>
             THEN Rejected(500, "error", "auth missing")
        ELSE IF TokenRejected(req) THEN Rejected(401, "error", "invalid token")
        ELSE IF SignatureRejected(req) THEN Rejected(401, "error", "invalid signature")
        ELSE IF event = EventNamePing THEN Rejected(200, "ok", "verified")
        ELSE IF event # EventNamePush THEN Rejected(202, "ignored", "unsupported event")
        ELSE IF Len(autoDeployProjects) = 0 THEN Rejected(500, "error", "projects empty")
        ELSE IF branch = <<>> THEN Rejected(202, "ignored", "not a branch")
        ELSE IF payload.deleted THEN Rejected(202, "ignored", "branch deleted")
        ELSE IF repositoryFullName = <<>> THEN Rejected(400, "error", "repository missing")
        ELSE IF project = 0 THEN Rejected(202, "ignored", "no matching project")
        ELSE [reply |-> Reply(202, "queued", "queued"), project |-> project,
              context |-> [repositoryName |-> repositoryName,
                           repositoryFullName |-> repositoryFullName, branch |-> branch]]

\* The whole handler: it runs to its reply without yielding. The reply stays in
\* `exchange` until the response has been written out.
Webhook(req) ==
    /\ exchange = <<>>
    /\ Len(jobs) < MaxJobs
    /\ LET d == WebhookDecision(req)
       IN  IF d.project # 0
           THEN /\ queueAutoDeploy(d.project, d.context)
                /\ exchange' = <<[request |-> req, reply |-> [d.reply EXCEPT !.jobId = Len(jobs) + 1]]>>
           ELSE /\ UNCHANGED queueVars
                /\ exchange' = <<[request |-> req, reply |-> d.reply]>>
    /\ UNCHANGED <<configVars, limitRead, shellRun, screenshotVars>>

\* the response has been written to the socket
Respond ==
    /\ exchange # <<>>
    /\ exchange' = <<>>
    /\ UNCHANGED <<configVars, queueVars, limitRead, shellRun, screenshotVars>>

----------------------------------------------------------------------------
(* The limit of the read endpoints *)

MaxLimitLen == 3

LimitChars == {"0", "1", "9", "-", ".", " ", "z"}

DigitSeq == <<"0","1","2","3","4","5","6","7","8","9">>

AllDigits(s) == \A i \in DOMAIN s : s[i] \in Digits

RECURSIVE digitsPrefixLen(_)
digitsPrefixLen(s) ==
    IF s # <<>> /\ Head(s) \in Digits THEN 1 + digitsPrefixLen(Tail(s)) ELSE 0

RECURSIVE digitsValue(_)
digitsValue(s) ==
    IF s = <<>> THEN 0
    ELSE 10 * digitsValue(SubSeq(s, 1, Len(s) - 1)) + (IndexOf(DigitSeq, s[Len(s)]) - 1)

NaN == [finite |-> FALSE, trunc |-> 0]

\* Number(rawLimit) followed by Math.trunc, for strings of sign, digits, ".", blanks and
\* other characters: undefined and an unparsable string are NaN, a blank string is 0.
NumberOf(rawLimit) ==
    IF ~rawLimit.present THEN NaN
    ELSE LET t == trim(rawLimit.value)
             signed == t # <<>> /\ Head(t) \in {"-", "+"}
             body == IF signed THEN Tail(t) ELSE t
             n == digitsPrefixLen(body)
             intPart == SubSeq(body, 1, n)
             rest == SubSeq(body, n + 1, Len(body))
             fraction == IF rest = <<>> THEN <<>> ELSE Tail(rest)
             wellFormed ==
                 /\ rest # <<>> => Head(rest) = "." /\ AllDigits(fraction)
                 /\ n = 0 => fraction # <<>>
             magnitude == digitsValue(intPart)
         IN  IF t = <<>> THEN [finite |-> TRUE, trunc |-> 0]
             ELSE IF ~wellFormed THEN NaN
             ELSE [finite |-> TRUE, trunc |-> IF signed /\ Head(t) = "-" THEN 0 - magnitude ELSE magnitude]

Min(a, b) == IF a < b THEN a ELSE b

Max(a, b) == IF a > b THEN a ELSE b

toSafeLimit(rawLimit, fallback) ==
    LET parsed == NumberOf(rawLimit)
    IN  IF ~parsed.finite THEN fallback ELSE Min(Max(parsed.trunc, 1), 100)

RECURSIVE StringsUpTo(_)
StringsUpTo(n) ==
    IF n = 0 THEN {<<>>}
    ELSE LET shorter == StringsUpTo(n - 1)
         IN  shorter \cup {Append(s, c) : s \in shorter, c \in LimitChars}

RawLimits == {Absent} \cup {Some(s) : s \in StringsUpTo(MaxLimitLen)}

LogsFallbackLimit == 120

DeploymentsFallbackLimit == 20

LatestLimit == 1

----------------------------------------------------------------------------
(* Timestamps *)

RECURSIVE decimalText(_)
decimalText(n) ==
    IF n < 10 THEN <<DigitSeq[n + 1]>>
    ELSE decimalText(n \div 10) \o <<DigitSeq[(n % 10) + 1]>>

\* Date.parse(text). A date-time is written by its instant, the milliseconds since the
\* epoch in decimal digits; every other text is not a date.
DateParse(text) ==
    IF text # <<>> /\ AllDigits(text) THEN [finite |-> TRUE, trunc |-> digitsValue(text)] ELSE NaN

\* new Date(ms).toISOString()
toISOString(ms) == decimalText(ms)

parseNginxTimestamp(rawValue) ==
    LET parsed == DateParse(trim(rawValue))
    IN  IF ~parsed.finite THEN Absent ELSE Some(toISOString(parsed.trunc))

\* the timestamps of the model are strings or missing
toIsoTimestamp(rawValue) ==
    IF ~rawValue.present THEN Absent
    ELSE LET trimmed == trim(rawValue.value)
             parsed == DateParse(trimmed)
         IN  IF trimmed = <<>> THEN Absent
             ELSE IF parseNginxTimestamp(trimmed).present THEN parseNginxTimestamp(trimmed)
             ELSE IF ~parsed.finite THEN Absent
             ELSE Some(toISOString(parsed.trunc))

----------------------------------------------------------------------------
(* Lines of the access log *)

\* A line is written by what JSON.parse or the combined-log regular expression make of it:
\*   "json"     a JSON object; of the alternative keys of a field the first one is kept
\*              (request, path, host, projectSlug, timestamp, message)
\*   "nginx"    a line of the combined log format: time, request and the quoted fields
\*              that follow the status and the size
\*   "partial"  a JSON line cut before its closing "}"
\*   "text"     any other text
LogLine(kind, request, path, host, projectHint, timestamp, message, quoted) ==
    [kind |-> kind, request |-> request, path |-> path, host |-> host,
     projectHint |-> projectHint, timestamp |-> timestamp, message |-> message,
     quoted |-> quoted]

JsonLine(projectHint, host, path, timestamp) ==
    LogLine("json", Absent, path, host, projectHint, timestamp, Absent, <<>>)

NginxLine(time, request, quoted) ==
    LogLine("nginx", Some(request), Absent, Absent, Absent, Some(time), Absent, quoted)

MalformedLine(kind) == LogLine(kind, Absent, Absent, Absent, Absent, Absent, Absent, <<>>)

Null == [isNull |-> TRUE]

MethodGet == <<"G", "E", "T">>

RootPath == <<"/">>

IsLetter(c) == c \in DOMAIN LowerOf \/ c \in DOMAIN UpperOf

RECURSIVE lettersPrefixLen(_)
lettersPrefixLen(s) ==
    IF s # <<>> /\ IsLetter(Head(s)) THEN 1 + lettersPrefixLen(Tail(s)) ELSE 0

\* rawValue.trim().match(/^([A-Z]+)\s+(\S+)/i)
parseRequestLine(rawValue) ==
    LET t == trim(rawValue)
        n == lettersPrefixLen(t)
        afterMethod == SubSeq(t, n + 1, Len(t))
        target == trimStart(afterMethod)
    IN  IF n = 0 \/ target = afterMethod
        THEN [method |-> MethodGet, path |-> RootPath]
        ELSE [method |-> toUpperCase(SubSeq(t, 1, n)), path |-> firstPiece(target, " ")]

ParsedRequestLogLine(timestamp, method, host, path, message, projectHint) ==
    [isNull |-> FALSE, timestamp |-> timestamp, method |-> method, host |-> host,
     path |-> path, message |-> message, projectHint |-> projectHint]

\* The status code and the remote address are carried through unread and are left out.
parseJsonRequestLogLine(line) ==
    IF line.kind # "json" THEN Null
    ELSE LET requestLine == parseRequestLine(OrElse(line.request, <<>>))
             method == requestLine.method
             pathValue == IF line.path.present /\ trim(line.path.value) # <<>>
                          THEN trim(line.path.value) ELSE requestLine.path
             path == IF pathValue # <<>> THEN pathValue ELSE RootPath
             message == IF line.message.present THEN line.message.value
                        ELSE method \o <<" ">> \o pathValue
         IN  ParsedRequestLogLine(toIsoTimestamp(line.timestamp), method,
                                  OrElse(line.host, <<>>), path,
                                  IF trim(message) # <<>> THEN trim(message)
                                  ELSE method \o <<" ">> \o path,
                                  line.projectHint)

LooksLikeHost(normalized) ==
    normalized = <<"l", "o", "c", "a", "l", "h", "o", "s", "t">> \/ includes(normalized, ".")

RECURSIVE extractHostFromQuotedFields(_)
extractHostFromQuotedFields(quotedFields) ==
    IF quotedFields = <<>> THEN <<>>
    ELSE LET value == trim(Head(quotedFields))
             normalized == normalizeHost(value)
         IN  IF value = <<>> \/ value = <<"-">> \/ includes(value, " ")
             THEN extractHostFromQuotedFields(Tail(quotedFields))
             ELSE IF normalized # <<>> /\ LooksLikeHost(normalized) THEN normalized
             ELSE extractHostFromQuotedFields(Tail(quotedFields))

parseNginxRequestLogLine(line) ==
    IF line.kind # "nginx" THEN Null
    ELSE LET requestLine == parseRequestLine(OrElse(line.request, <<>>))
         IN  ParsedRequestLogLine(parseNginxTimestamp(OrElse(line.timestamp, <<>>)),
                                  requestLine.method,
                                  extractHostFromQuotedFields(line.quoted),
                                  requestLine.path,
                                  requestLine.method \o <<" ">> \o requestLine.path,
                                  Absent)

\* parseJsonRequestLogLine(line) ?? parseNginxRequestLogLine(line)
parseRequestLogLine(line) ==
    LET json == parseJsonRequestLogLine(line)
    IN  IF ~json.isNull THEN json ELSE parseNginxRequestLogLine(line)

----------------------------------------------------------------------------
(* Project attribution of an access-log line *)

\* the smallest i in 1..n with P(i), 0 when there is none
FirstIndex(n, P(_)) ==
    With({i \in 1..n : P(i)},
         LAMBDA matching : IF matching = {} THEN 0
                           ELSE CHOOSE i \in matching : \A k \in matching : i <= k)

\* new Map(autoDeployProjects.map(...)): a later project replaces an earlier one of its slug
autoDeployProjectsBySlug ==
    [slug \in {autoDeployProjects[i].projectSlug : i \in DOMAIN autoDeployProjects} |->
        autoDeployProjects[CHOOSE i \in DOMAIN autoDeployProjects :
            /\ autoDeployProjects[i].projectSlug = slug
            /\ \A k \in DOMAIN autoDeployProjects :
                  autoDeployProjects[k].projectSlug = slug => k <= i]]

defaultProjectSlug ==
    IF autoDeployProjects # <<>> THEN autoDeployProjects[1].projectSlug ELSE fallbackProjectSlug

defaultProjectName ==
    IF autoDeployProjects # <<>> THEN autoDeployProjects[1].projectName ELSE fallbackProjectName

resolveProjectSlug(input) ==
    IF ~input.present \/ input.value = <<>> THEN defaultProjectSlug
    ELSE IF normalizeProject(input.value) = <<>> THEN defaultProjectSlug
    ELSE normalizeProject(input.value)

resolveProjectName(projectSlug) ==
    IF projectSlug \in DOMAIN autoDeployProjectsBySlug
    THEN autoDeployProjectsBySlug[projectSlug].projectName ELSE defaultProjectName

resolveProjectPreviewUrl(projectSlug) ==
    LET perProjectUrl == trim(OrElse(envOf(envPrefix(projectSlug) \o <<"_", "P", "R", "E", "V", "I", "E", "W", "_", "U", "R", "L">>), <<>>))
    IN  IF perProjectUrl # <<>> THEN perProjectUrl
        ELSE IF projectSlug = defaultProjectSlug THEN defaultScreenshotTargetUrl
        ELSE <<>>

\* new URL(previewUrl).hostname and normalizeHost(previewUrl) agree on scheme://host[:port][/path]
resolveProjectPreviewHost(projectSlug) ==
    With(resolveProjectPreviewUrl(projectSlug),
         LAMBDA url : IF url = <<>> THEN <<>> ELSE normalizeHost(url))

resolveProjectConfiguredHosts(projectSlug) ==
    LET prefix == envPrefix(projectSlug)
        envDomains == asDomainList(envOf(prefix \o <<"_", "D", "O", "M", "A", "I", "N", "S">>))
                      \o asDomainList(envOf(prefix \o <<"_", "D", "O", "M", "A", "I", "N">>))
                      \o asDomainList(envOf(prefix \o <<"_", "L", "I", "V", "E", "_", "D", "O", "M", "A", "I", "N", "S">>))
                      \o asDomainList(envOf(prefix \o <<"_", "L", "I", "V", "E", "_", "D", "O", "M", "A", "I", "N">>))
        projectDomains == IF projectSlug \in DOMAIN autoDeployProjectsBySlug
                          THEN autoDeployProjectsBySlug[projectSlug].domains ELSE <<>>
    IN  unique(normalizeHosts(projectDomains \o envDomains))

projectSlugCanonicalValue(projectSlug) == SelectAlnum(toLowerCase(projectSlug))

\* normalizedHost.split(".").map(canonical).filter(non-empty)
hostLabels(normalizedHost) ==
    LET labels == split(normalizedHost, ".")
    IN  SelectSeq([i \in DOMAIN labels |-> SelectAlnum(toLowerCase(labels[i]))],
                  LAMBDA label : label # <<>>)

\* the three tests of one turn of the loop over the projects
hostMatches(project, normalizedHost) ==
    LET previewHost == resolveProjectPreviewHost(project.projectSlug)
        slugCanonical == projectSlugCanonicalValue(project.projectSlug)
    IN  \/ previewHost # <<>> /\ previewHost = normalizedHost
        \/ normalizedHost \in Range(resolveProjectConfiguredHosts(project.projectSlug))
        \/ slugCanonical # <<>> /\ slugCanonical \in Range(hostLabels(normalizedHost))

textMatches(project, haystack) ==
    LET slugCanonical == projectSlugCanonicalValue(project.projectSlug)
    IN  \/ includesText(haystack, project.projectSlug)
        \/ slugCanonical # <<>> /\ includesText(SelectAlnum(haystack), slugCanonical)

\* variant: a hint is never taken
hintAccepted_Never(hint) == FALSE

hintAccepted(hint) ==
    /\ hint # <<>>
    /\ \/ hint \in DOMAIN autoDeployProjectsBySlug
       \/ Len(autoDeployProjects) = 0 /\ hint = fallbackProjectSlug

\* the empty string: the line is not attributed
resolveProjectSlugFromRequestLog(entry) ==
    With(normalizeProject(OrElse(entry.projectHint, <<>>)), LAMBDA hint :
    IF hintAccepted(hint) THEN hint
    ELSE
    With(normalizeHost(entry.host), LAMBDA normalizedHost :
    With(IF normalizedHost = <<>> THEN 0
         ELSE FirstIndex(Len(autoDeployProjects),
                         LAMBDA i : hostMatches(autoDeployProjects[i], normalizedHost)), LAMBDA byHost :
    IF byHost # 0 THEN autoDeployProjects[byHost].projectSlug
    ELSE IF /\ normalizedHost # <<>>
            /\ Len(autoDeployProjects) = 0
            /\ resolveProjectPreviewHost(fallbackProjectSlug) # <<>>
            /\ resolveProjectPreviewHost(fallbackProjectSlug) = normalizedHost
         THEN fallbackProjectSlug
    ELSE
    With(toLowerCase(entry.path \o <<" ">> \o entry.message \o <<" ">> \o normalizedHost), LAMBDA haystack :
    With(FirstIndex(Len(autoDeployProjects),
                    LAMBDA i : textMatches(autoDeployProjects[i], haystack)), LAMBDA byText :
    IF byText # 0 THEN autoDeployProjects[byText].projectSlug
    ELSE IF Len(autoDeployProjects) = 1 THEN autoDeployProjects[1].projectSlug
    ELSE IF Len(autoDeployProjects) = 0 THEN fallbackProjectSlug
    ELSE <<>>)))))

----------------------------------------------------------------------------
(* The dashboard's own traffic *)

ControlPlaneRoots == {<<"p", "r", "o", "j", "e", "c", "t", "s">>, <<"l", "o", "g", "s">>, <<"w", "e", "b", "h", "o", "o", "k", "s">>, <<"d", "e", "p", "l", "o", "y", "m", "e", "n", "t", "s">>, <<"o", "a", "u", "t", "h">>}

V1Path == <<"/", "v", "1">>

ApiV1Path == <<"/", "a", "p", "i", "/", "v", "1">>

\* normalizedPath.match(/^\/(?:api\/)?v1\/([^/]+)/)
isControlPlaneRequestPath(pathValue) ==
    LET normalizedPath == firstPiece(toLowerCase(trim(pathValue)), "?")
        prefix == IF startsWith(normalizedPath, ApiV1Path \o <<"/">>) THEN ApiV1Path \o <<"/">>
                  ELSE V1Path \o <<"/">>
        root == firstPiece(slice(normalizedPath, Len(prefix)), "/")
    IN  IF normalizedPath = <<>> THEN FALSE
        ELSE IF ~startsWith(normalizedPath, prefix) \/ root = <<>>
             THEN normalizedPath = V1Path \/ normalizedPath = ApiV1Path
        ELSE root \in ControlPlaneRoots

\* variant: only the host marks the dashboard's traffic
isDashboardUsageRequest_HostOnly(host, pathValue) ==
    normalizeHost(host) # <<>> /\ normalizeHost(host) \in dashboardKnownHosts

isDashboardUsageRequest(host, pathValue) ==
    \/ isControlPlaneRequestPath(pathValue)
    \/ With(normalizeHost(host),
            LAMBDA normalizedHost : normalizedHost # <<>> /\ normalizedHost \in dashboardKnownHosts)

----------------------------------------------------------------------------
(* Reading the access log *)

MaxLines == 2

NoBound == [given |-> FALSE, ms |-> 0]

Bound(ms) == [given |-> TRUE, ms |-> ms]

requestLogTimestamp(entry) ==
    IF DateParse(entry.timestamp).finite THEN DateParse(entry.timestamp).trunc ELSE 0

\* list.sort((left, right) => requestLogTimestamp(right) - requestLogTimestamp(left)):
\* newest first, entries of one instant in their order of arrival
RECURSIVE sortNewestFirst(_)
sortNewestFirst(list) ==
    IF list = <<>> THEN <<>>
    ELSE With(sortNewestFirst(SubSeq(list, 1, Len(list) - 1)), LAMBDA front :
         LET last == list[Len(list)]
             keep == Cardinality({i \in DOMAIN front :
                                     requestLogTimestamp(front[i]) >= requestLogTimestamp(last)})
         IN  SubSeq(front, 1, keep) \o <<last>> \o SubSeq(front, keep + 1, Len(front)))

\* parsedLine.timestamp ?? new Date().toISOString()
timestampOr(timestamp, now) == OrElse(timestamp, toISOString(now))

\* One turn of the loop of parseRequestLogEntries: the entry pushed for the line, if any.
\* index counts from 0.
requestLogEntryOf(line, index, normalizedRequestedProject, startMs, endMs, now) ==
    With(parseRequestLogLine(line), LAMBDA parsedLine :
    IF parsedLine.isNull THEN <<>>
    ELSE
    With(normalizeHost(parsedLine.host), LAMBDA normalizedParsedHost :
    With(IF trim(parsedLine.path) # <<>> THEN trim(parsedLine.path) ELSE RootPath, LAMBDA normalizedParsedPath :
    IF isDashboardUsageRequest(normalizedParsedHost, normalizedParsedPath) THEN <<>>
    ELSE
    With(resolveProjectSlugFromRequestLog(parsedLine), LAMBDA inferredProjectSlug :
    IF inferredProjectSlug = <<>> THEN <<>>
    ELSE IF normalizedRequestedProject # <<>> /\ inferredProjectSlug # normalizedRequestedProject
         THEN <<>>
    ELSE
    With(timestampOr(parsedLine.timestamp, now), LAMBDA timestamp :
    With(IF toUpperCase(trim(parsedLine.method)) # <<>>
         THEN toUpperCase(trim(parsedLine.method)) ELSE MethodGet, LAMBDA method :
    With(DateParse(timestamp), LAMBDA epoch :
    LET host == IF normalizedParsedHost # <<>> THEN normalizedParsedHost
                ELSE IF resolveProjectPreviewHost(inferredProjectSlug) # <<>>
                     THEN resolveProjectPreviewHost(inferredProjectSlug)
                ELSE localServerHost
        stableEpoch == IF epoch.finite THEN epoch.trunc ELSE 0
    IN  IF startMs.given /\ stableEpoch < startMs.ms THEN <<>>
        ELSE IF endMs.given /\ stableEpoch > endMs.ms THEN <<>>
        ELSE <<[logId |-> [projectSlug |-> inferredProjectSlug, stableEpoch |-> stableEpoch,
                           index |-> index],
                timestamp |-> timestamp,
                method |-> method,
                host |-> host,
                path |-> normalizedParsedPath,
                message |-> IF trim(parsedLine.message) # <<>> THEN trim(parsedLine.message)
                            ELSE method \o <<" ">> \o normalizedParsedPath,
                projectSlug |-> inferredProjectSlug]>>)))))))

RECURSIVE requestLogEntriesFrom(_, _, _, _, _, _)
requestLogEntriesFrom(lines, index, normalizedRequestedProject, startMs, endMs, now) ==
    IF index >= Len(lines) THEN <<>>
    ELSE requestLogEntryOf(lines[index + 1], index, normalizedRequestedProject, startMs, endMs, now)
         \o requestLogEntriesFrom(lines, index + 1, normalizedRequestedProject, startMs, endMs, now)

\* raw.split("\n").map(trim).filter(non-empty): the lines of a content are its non-blank lines
NonBlankLines(raw) == SelectSeq(raw, LAMBDA line : line.kind # "blank")

\* requestedProjectSlug is the empty string when the read is not for one project
parseRequestLogEntries(raw, requestedProjectSlug, limit, startMs, endMs, now) ==
    With(IF requestedProjectSlug # <<>> THEN resolveProjectSlug(Some(requestedProjectSlug))
         ELSE <<>>, LAMBDA normalizedRequestedProject :
    With(requestLogEntriesFrom(NonBlankLines(raw), 0, normalizedRequestedProject,
                               startMs, endMs, now), LAMBDA parsedEntries :
    SubSeq(sortNewestFirst(parsedEntries), 1, Min(limit, Len(parsedEntries)))))

----------------------------------------------------------------------------
(* Reading the deployment tracker *)

\* A line of the tracker is written by what JSON.parse makes of it:
\*   "object"   a JSON object with a string projectName, or without one
\*   "badtype"  a JSON object whose projectName is not a string
\*   "null"     the JSON literal null
\*   "partial"  a JSON line cut before its end
\*   "text"     any other text that is not JSON
\*   "blank"    a line of blanks
TrackerLine(kind, projectName, deploymentId) ==
    [kind |-> kind, projectName |-> projectName, deploymentId |-> deploymentId,
     trackedAt |-> Absent, status |-> Absent]

\* a JSON object that carries a trackedAt as well
TrackedLine(projectName, deploymentId, trackedAt) ==
    [kind |-> "object", projectName |-> projectName, deploymentId |-> deploymentId,
     trackedAt |-> trackedAt, status |-> Absent]

\* a JSON object that carries a status
StatusLine(projectName, deploymentId, status) ==
    [kind |-> "object", projectName |-> projectName, deploymentId |-> deploymentId,
     trackedAt |-> Absent, status |-> status]

StatusReady == <<"R", "e", "a", "d", "y">>

DeploymentIdUnknown == <<"u", "n", "k", "n", "o", "w", "n">>

\* variant: a line is kept when its slug starts with the slug asked for
trackerLineOutcome_Prefix(line, expectedProjectSlug) ==
    IF line.kind \in {"text", "partial", "null", "badtype"} THEN "threw"
    ELSE LET entryProject == normalizeProject(OrElse(line.projectName, <<>>))
         IN  IF ~startsWith(entryProject, expectedProjectSlug) THEN "skipped" ELSE "kept"

\* What the body of the try block does with a line: it throws (JSON.parse on text that is
\* not JSON, a property read on null, input.trim on a value that is not a string), it
\* skips the line, or it keeps it.
trackerLineOutcome(line, expectedProjectSlug) ==
    IF line.kind \in {"text", "partial", "null", "badtype"} THEN "threw"
    ELSE LET entryProject == normalizeProject(OrElse(line.projectName, <<>>))
         IN  IF entryProject = <<>> \/ entryProject # expectedProjectSlug THEN "skipped"
             ELSE "kept"

\* variant: the records are returned in the order of the file
reverse_FileOrder(list) == list

\* variant: without the catch block
catchMalformed_Missing(outcome) == outcome

\* catch { /* skip malformed lines */ }
catchMalformed(outcome) == IF outcome = "threw" THEN "skipped" ELSE outcome

\* `line` is the position of the line among the lines parsed, from 1: the record itself
\* does not keep it. trackedAt is entry.trackedAt ?? new Date().toISOString(): the time
\* of the read is written Absent. status is entry.status ?? "Ready".
trackerEntriesFrom(lines, i, expectedProjectSlug, expectedProjectName) ==
    With({k \in i..Len(lines) :
            catchMalformed(trackerLineOutcome(lines[k], expectedProjectSlug)) = "kept"},
         LAMBDA kept :
            [n \in 1..Cardinality(kept) |->
                With(CHOOSE k \in kept : Cardinality({x \in kept : x < k}) = n - 1, LAMBDA k :
                     [deploymentId |-> toUpperCase(OrElse(lines[k].deploymentId, DeploymentIdUnknown)),
                      projectName |-> expectedProjectName,
                      trackedAt |-> lines[k].trackedAt,
                      status |-> OrElse(lines[k].status, StatusReady),
                      line |-> k])])

\* parsed.reverse()
reverse(list) == [i \in DOMAIN list |-> list[Len(list) + 1 - i]]

\* threw: an exception left the function
parseTrackerEntries(raw, expectedProjectSlug, expectedProjectName) ==
    LET lines == NonBlankLines(raw)
    IN  [threw |-> \E i \in DOMAIN lines :
                      catchMalformed(trackerLineOutcome(lines[i], expectedProjectSlug)) = "threw",
         data |-> reverse(trackerEntriesFrom(lines, 1, expectedProjectSlug, expectedProjectName))]

----------------------------------------------------------------------------
(* Local and remote sources *)

\* What a read finds: whether ssh to the remote host succeeds, the lines of the remote
\* file, and the local file when there is one.
Source(sshOk, remoteFile, localFile) ==
    [sshOk |-> sshOk, remoteFile |-> remoteFile, localFile |-> localFile]

\* tail -n count file || true
tail(file, count) == SubSeq(file, Max(1, Len(file) - count + 1), Len(file))

\* toPositiveInteger(process.env.REQUEST_LOG_TAIL_LINES, 600), the variable is unset
requestLogTailLines == 600

\* toPositiveInteger(process.env.REQUEST_LOG_TAIL_MULTIPLIER, 25), the variable is unset
requestLogTailMultiplier == 25

TrackerTailMultiplier == 5

TrackerTailLines == 100

Failure == [threw |-> TRUE, mode |-> "none", data |-> <<>>]

Result(mode, data) == [threw |-> FALSE, mode |-> mode, data |-> data]

readRemoteTracker(expectedProjectSlug, limit, source) ==
    LET stdout == tail(source.remoteFile, Max(limit * TrackerTailMultiplier, TrackerTailLines))
    IN  IF ~source.sshOk THEN Failure
        ELSE With(parseTrackerEntries(stdout, expectedProjectSlug,
                                      resolveProjectName(expectedProjectSlug)), LAMBDA parsed :
             IF parsed.threw THEN Failure
             ELSE Result("remote", SubSeq(parsed.data, 1, Min(limit, Len(parsed.data)))))

\* variant: without .slice(0, limit)
readLocalTracker_Unsliced(expectedProjectSlug, limit, source) ==
    IF ~source.localFile.present THEN Failure
    ELSE With(parseTrackerEntries(source.localFile.value, expectedProjectSlug,
                                  resolveProjectName(expectedProjectSlug)), LAMBDA parsed :
         IF parsed.threw THEN Failure
         ELSE Result("local", parsed.data))

readLocalTracker(expectedProjectSlug, limit, source) ==
    IF ~source.localFile.present THEN Failure
    ELSE With(parseTrackerEntries(source.localFile.value, expectedProjectSlug,
                                  resolveProjectName(expectedProjectSlug)), LAMBDA parsed :
         IF parsed.threw THEN Failure
         ELSE Result("local", SubSeq(parsed.data, 1, Min(limit, Len(parsed.data)))))

\* variant: a remote failure falls back to the local file
getDeployments_LocalFallback(limit, requestedProjectSlug, source) ==
    With(resolveProjectSlug(requestedProjectSlug), LAMBDA targetProjectSlug :
    With(IF OrElse(remoteTrackerHost, <<>>) # <<>>
         THEN readRemoteTracker(targetProjectSlug, limit, source) ELSE Failure, LAMBDA remote :
    IF ~remote.threw THEN remote
    ELSE With(readLocalTracker(targetProjectSlug, limit, source), LAMBDA local :
         IF local.threw THEN Result("local", <<>>) ELSE local)))

getDeployments(limit, requestedProjectSlug, source) ==
    With(resolveProjectSlug(requestedProjectSlug), LAMBDA targetProjectSlug :
    IF OrElse(remoteTrackerHost, <<>>) # <<>>
    THEN readRemoteTracker(targetProjectSlug, limit, source)
    \* readLocalTracker(...).catch(() => [])
    ELSE With(readLocalTracker(targetProjectSlug, limit, source), LAMBDA local :
         IF local.threw THEN Result("local", <<>>) ELSE local))

readRemoteRequestLogs(requestedProjectSlug, limit, startMs, endMs, source, now) ==
    LET tailedLines == Max(requestLogTailLines, limit * requestLogTailMultiplier)
    IN  IF ~source.sshOk THEN Failure
        ELSE Result("remote", parseRequestLogEntries(tail(source.remoteFile, tailedLines),
                                                     requestedProjectSlug, limit, startMs, endMs, now))

readLocalRequestLogs(requestedProjectSlug, limit, startMs, endMs, source, now) ==
    IF ~source.localFile.present THEN Failure
    ELSE Result("local", parseRequestLogEntries(source.localFile.value, requestedProjectSlug,
                                                limit, startMs, endMs, now))

getRequestLogs(limit, requestedProjectSlug, startMs, endMs, source, now) ==
    With(IF requestedProjectSlug.present /\ requestedProjectSlug.value # <<>>
         THEN resolveProjectSlug(requestedProjectSlug) ELSE <<>>, LAMBDA targetProjectSlug :
    IF requestLogRemoteHost # <<>>
    THEN readRemoteRequestLogs(targetProjectSlug, limit, startMs, endMs, source, now)
    \* readLocalRequestLogs(...).catch(() => [])
    ELSE With(readLocalRequestLogs(targetProjectSlug, limit, startMs, endMs, source, now), LAMBDA local :
         IF local.threw THEN Result("local", <<>>) ELSE local))

\* TRUE when the project of the query is refused with an error message
validateProjectInput(input) ==
    LET normalized == normalizeProject(OrElse(input, <<>>))
    IN  IF ~input.present \/ input.value = <<>> THEN FALSE
        ELSE IF Len(autoDeployProjects) = 0 THEN normalized # fallbackProjectSlug
        ELSE normalized \notin DOMAIN autoDeployProjectsBySlug

----------------------------------------------------------------------------
(* GET /v1/logs, GET /v1/deployments, GET /v1/deployments/latest *)

Query(project, limit, start, end) ==
    [project |-> project, limit |-> limit, start |-> start, end |-> end]

ProjectAll == <<"a", "l", "l">>

\* The project a reply names: meta.project of a 200 reply (getRequestLogs says "all" when
\* no project was asked for), `Unknown project (${normalized})` of a 400 reply.
repliedProject(route, query, status) ==
    IF status = 400 THEN normalizeProject(OrElse(query.project, <<>>))
    ELSE IF route = "/v1/logs" /\ ~(query.project.present /\ query.project.value # <<>>)
         THEN ProjectAll
    ELSE resolveProjectSlug(query.project)

\* The request and its reply. read: the query was valid and the source was read with
\* `limit`; data: the entries of a 200 reply.
Read(route, query, source, now, limit, status, result) ==
    [route |-> route, rawLimit |-> query.limit, limit |-> limit, read |-> status # 400,
     status |-> status, mode |-> result.mode, data |-> result.data,
     project |-> repliedProject(route, query, status),
     query |-> query, source |-> source, now |-> now]

NotRead == [threw |-> FALSE, mode |-> "none", data |-> <<>>]

\* query.start ? Date.parse(query.start) : undefined
boundOf(text) ==
    IF ~text.present \/ text.value = <<>> THEN NoBound
    ELSE Bound(IF DateParse(text.value).finite THEN DateParse(text.value).trunc ELSE 0)

invalidBound(text) == text.present /\ text.value # <<>> /\ ~DateParse(text.value).finite

\* GET /v1/logs: the limit is computed first; an invalid project, start or end answers 400
\* without reading, otherwise getRequestLogs(safeLimit, ...) reads.
GetLogs(query, source, now) ==
    /\ limitRead = <<>>
    /\ LET safeLimit == toSafeLimit(query.limit, LogsFallbackLimit)
           startMs == boundOf(query.start)
           endMs == boundOf(query.end)
           refused == \/ validateProjectInput(query.project)
                      \/ invalidBound(query.start) \/ invalidBound(query.end)
                      \/ startMs.given /\ endMs.given /\ endMs.ms < startMs.ms
       IN  limitRead' =
             <<IF refused THEN Read("/v1/logs", query, source, now, safeLimit, 400, NotRead)
               ELSE With(getRequestLogs(safeLimit, query.project, startMs, endMs, source, now),
                         LAMBDA payload :
                            IF payload.threw
                            THEN Read("/v1/logs", query, source, now, safeLimit, 500, NotRead)
                            ELSE Read("/v1/logs", query, source, now, safeLimit, 200, payload))>>
    /\ UNCHANGED <<configVars, queueVars, exchange, shellRun, screenshotVars>>

\* GET /v1/deployments: getDeployments(safeLimit, ...)
GetDeployments(query, source) ==
    /\ limitRead = <<>>
    /\ LET safeLimit == toSafeLimit(query.limit, DeploymentsFallbackLimit)
       IN  limitRead' =
             <<IF validateProjectInput(query.project)
               THEN Read("/v1/deployments", query, source, 0, safeLimit, 400, NotRead)
               ELSE With(getDeployments(safeLimit, query.project, source),
                         LAMBDA payload :
                            IF payload.threw
                            THEN Read("/v1/deployments", query, source, 0, safeLimit, 500, NotRead)
                            ELSE Read("/v1/deployments", query, source, 0, safeLimit, 200, payload))>>
    /\ UNCHANGED <<configVars, queueVars, exchange, shellRun, screenshotVars>>

\* GET /v1/deployments/latest: getDeployments(1, ...), whatever limit the query holds;
\* data is payload.data[0] ?? null, as a list of at most one record
GetLatestDeployment(query, source) ==
    /\ limitRead = <<>>
    /\ limitRead' =
          <<IF validateProjectInput(query.project)
            THEN Read("/v1/deployments/latest", query, source, 0, LatestLimit, 400, NotRead)
            ELSE With(getDeployments(LatestLimit, query.project, source),
                      LAMBDA payload :
                         IF payload.threw
                         THEN Read("/v1/deployments/latest", query, source, 0, LatestLimit, 500, NotRead)
                         ELSE Read("/v1/deployments/latest", query, source, 0, LatestLimit, 200,
                                   [payload EXCEPT !.data = SubSeq(payload.data, 1, Min(1, Len(payload.data)))]))>>
    /\ UNCHANGED <<configVars, queueVars, exchange, shellRun, screenshotVars>>

\* the response of the read has been written to the socket
ReadDone ==
    /\ limitRead # <<>>
    /\ limitRead' = <<>>
    /\ UNCHANGED <<configVars, queueVars, exchange, shellRun, screenshotVars>>

----------------------------------------------------------------------------
(* GET /v1/deployments/latest/screenshot *)

MaxScreenshotRequests == 2

ScreenshotQuery(project, refresh) == [project |-> project, refresh |-> refresh]

\* new URL(rawUrl).protocol is "http:" or "https:"; the URL parser drops the blanks
\* around the text and lowers the case of the scheme
isValidScreenshotUrl(rawUrl) ==
    \/ startsWith(toLowerCase(trim(rawUrl)), <<"h", "t", "t", "p", ":", "/", "/">>)
    \/ startsWith(toLowerCase(trim(rawUrl)), <<"h", "t", "t", "p", "s", ":", "/", "/">>)

\* `${targetProjectSlug}:${deploymentId}`, deploymentId = latest.deploymentId || "unknown"
CacheKey(targetProjectSlug, latest) ==
    <<targetProjectSlug, IF latest.deploymentId = <<>> THEN DeploymentIdUnknown ELSE latest.deploymentId>>

NoKey == <<<<>>, <<>>>>

\* a handler that has replied
Replied(status) ==
    [pc |-> "done", status |-> status, key |-> NoKey, ready |-> FALSE, refresh |-> FALSE,
     alreadyCaptured |-> FALSE, job |-> 0]

\* a handler suspended at `await mkdir(...)`, with what it has computed
Suspended(key, ready, refresh) ==
    [pc |-> "stat", status |-> 0, key |-> key, ready |-> ready, refresh |-> refresh,
     alreadyCaptured |-> FALSE, job |-> 0]

\* The handler up to `await mkdir(projectCacheDir)`: the project, the preview URL and the
\* latest deployment of the project.
ScreenshotArrive(query, source) ==
    /\ Len(screenshotRequests) < MaxScreenshotRequests
    /\ screenshotRequests' = Append(screenshotRequests,
          IF validateProjectInput(query.project) THEN Replied(400)
          ELSE With(resolveProjectSlug(query.project), LAMBDA targetProjectSlug :
               With(resolveProjectPreviewUrl(targetProjectSlug), LAMBDA screenshotTargetUrl :
               IF screenshotTargetUrl = <<>> \/ ~isValidScreenshotUrl(screenshotTargetUrl)
               THEN Replied(500)
               ELSE With(getDeployments(LatestLimit, Some(targetProjectSlug), source), LAMBDA payload :
                    IF payload.threw THEN Replied(500)
                    ELSE IF payload.data = <<>> THEN Replied(404)
                    ELSE Suspended(CacheKey(targetProjectSlug, payload.data[1]),
                                   payload.data[1].status = StatusReady,
                                   OrElse(query.refresh, <<>>) = <<"1">>)))))
    /\ UNCHANGED <<configVars, queueVars, exchange, limitRead, shellRun,
                   screenshotQueues, captures, screenshotFiles>>

\* const alreadyCaptured = await fileExists(screenshotPath): the file system answers
ScreenshotStat(r) ==
    /\ r \in DOMAIN screenshotRequests
    /\ screenshotRequests[r].pc = "stat"
    /\ screenshotRequests' =
          [screenshotRequests EXCEPT ![r].pc = "decide",
                                     ![r].alreadyCaptured = screenshotRequests[r].key \in screenshotFiles]
    /\ UNCHANGED <<configVars, queueVars, exchange, limitRead, shellRun,
                   screenshotQueues, captures, screenshotFiles>>

\* variant: the map is not consulted
ExistingJob_NotConsulted(queues, cacheKey) == 0

\* screenshotQueues.get(cacheKey); 0 is undefined
ExistingJob(queues, cacheKey) ==
    IF cacheKey \in DOMAIN queues THEN queues[cacheKey] ELSE 0

\* the subprocess of captureScreenshot and the promise `job` built on it
NewCapture(cacheKey) ==
    [key |-> cacheKey, process |-> "running", promise |-> "pending", finalized |-> FALSE]

\* The handler from the answer of fileExists on, which runs without an await up to the
\* reply or up to `await existingJob` / `await job`: the cached image, the reply 425, or
\* the lookup of the map and the spawn of the capture.
ScreenshotDecide(r) ==
    /\ r \in DOMAIN screenshotRequests
    /\ screenshotRequests[r].pc = "decide"
    /\ LET request == screenshotRequests[r]
           existingJob == ExistingJob(screenshotQueues, request.key)
       IN  IF request.alreadyCaptured /\ ~request.refresh
           THEN /\ screenshotRequests' = [screenshotRequests EXCEPT ![r].pc = "done", ![r].status = 200]
                /\ UNCHANGED <<screenshotQueues, captures>>
           ELSE IF ~request.ready
           THEN /\ screenshotRequests' =
                      [screenshotRequests EXCEPT ![r].pc = "done",
                                                 ![r].status = IF request.alreadyCaptured THEN 200 ELSE 425]
                /\ UNCHANGED <<screenshotQueues, captures>>
           ELSE IF existingJob # 0
           THEN /\ screenshotRequests' = [screenshotRequests EXCEPT ![r].pc = "await", ![r].job = existingJob]
                /\ UNCHANGED <<screenshotQueues, captures>>
           ELSE /\ captures' = Append(captures, NewCapture(request.key))
                /\ screenshotQueues' = QueuesSet(screenshotQueues, request.key, Len(captures) + 1)
                /\ screenshotRequests' =
                      [screenshotRequests EXCEPT ![r].pc = "await", ![r].job = Len(captures) + 1]
    /\ UNCHANGED <<configVars, queueVars, exchange, limitRead, shellRun, screenshotFiles>>

\* execFileAsync("npx", ...) settles: the subprocess has written the file and exited
\* with 0, or it has failed (non-zero exit, timeout screenshotTimeoutMs, npx missing)
CaptureExit(c, outcome) ==
    /\ c \in DOMAIN captures
    /\ captures[c].process = "running"
    /\ captures' = [captures EXCEPT ![c].process = "exited",
                                    ![c].promise = IF outcome = "ok" THEN "fulfilled" ELSE "rejected"]
    /\ screenshotFiles' = IF outcome = "ok" THEN screenshotFiles \cup {captures[c].key}
                          ELSE screenshotFiles
    /\ UNCHANGED <<configVars, queueVars, exchange, limitRead, shellRun,
                   screenshotQueues, screenshotRequests>>

\* .catch(log; throw).finally(() => { screenshotQueues.delete(cacheKey) })
CaptureFinally(c) ==
    /\ c \in DOMAIN captures
    /\ captures[c].process = "exited"
    /\ ~captures[c].finalized
    /\ captures' = [captures EXCEPT ![c].finalized = TRUE]
    /\ screenshotQueues' = QueuesDelete(screenshotQueues, captures[c].key)
    /\ UNCHANGED <<configVars, queueVars, exchange, limitRead, shellRun,
                   screenshotRequests, screenshotFiles>>

\* The handler after `await existingJob` / `await job`: a rejection leaves the handler
\* as an exception (500), otherwise the file is looked for and sent
ScreenshotResume(r) ==
    /\ r \in DOMAIN screenshotRequests
    /\ screenshotRequests[r].pc = "await"
    /\ captures[screenshotRequests[r].job].finalized
    /\ screenshotRequests' =
          [screenshotRequests EXCEPT
              ![r].pc = "done",
              ![r].status = IF captures[screenshotRequests[r].job].promise = "rejected" THEN 500
                            ELSE IF screenshotRequests[r].key \in screenshotFiles THEN 200
                            ELSE 500]
    /\ UNCHANGED <<configVars, queueVars, exchange, limitRead, shellRun,
                   screenshotQueues, captures, screenshotFiles>>

----------------------------------------------------------------------------
(* Shell quoting and the deploy script *)

MaxWordLen == 3

\* every occurrence of the character replaced, halving the input
RECURSIVE replaceAll(_, _, _)
replaceAll(input, char, replacement) ==
    IF input = <<>> THEN <<>>
    ELSE IF Len(input) = 1 THEN (IF input[1] = char THEN replacement ELSE input)
    ELSE LET half == Len(input) \div 2
         IN  replaceAll(SubSeq(input, 1, half), char, replacement)
             \o replaceAll(SubSeq(input, half + 1, Len(input)), char, replacement)

\* variant: an embedded single quote is escaped with a backslash
shellQuote_Backslash(input) == <<"'">> \o replaceAll(input, "'", <<"\\", "'">>) \o <<"'">>

\* `'${input.replace(/'/g, `'"'"'`)}'`
shellQuote(input) ==
    <<"'">> \o replaceAll(input, "'", <<"'", "\"", "'", "\"", "'">>) \o <<"'">>

RECURSIVE join(_, _)
join(parts, separator) ==
    IF parts = <<>> THEN <<>>
    ELSE IF Len(parts) = 1 THEN parts[1]
    ELSE parts[1] \o separator \o join(Tail(parts), separator)

buildAutoDeployScript(project, branch) ==
    LET escapedRepoPath == shellQuote(project.repoPath)
        escapedBranch == shellQuote(branch)
        escapedOriginRef == shellQuote(<<"o", "r", "i", "g", "i", "n", "/">> \o branch)
        escapedDeployCommand == shellQuote(project.deployCommand)
    IN  join(<<<<"s", "e", "t", " ", "-", "e", "u", "o", " ", "p", "i", "p", "e", "f", "a", "i", "l">>,
               <<"c", "d", " ">> \o escapedRepoPath,
               <<"g", "i", "t", " ", "f", "e", "t", "c", "h", " ", "o", "r", "i", "g", "i", "n", " ">> \o escapedBranch,
               <<"g", "i", "t", " ", "c", "h", "e", "c", "k", "o", "u", "t", " ">> \o escapedBranch \o <<" ", "|", "|", " ", "g", "i", "t", " ", "c", "h", "e", "c", "k", "o", "u", "t", " ", "-", "b", " ">> \o escapedBranch
                   \o <<" ">> \o escapedOriginRef,
               <<"g", "i", "t", " ", "r", "e", "s", "e", "t", " ", "-", "-", "h", "a", "r", "d", " ">> \o escapedOriginRef,
               <<"i", "f", " ", "[", "[", " ", "-", "x", " ", ".", "/", "d", "e", "p", "l", "o", "y", "-", "w", "i", "t", "h", "-", "t", "r", "a", "c", "k", ".", "s", "h", " ", "]", "]", ";", " ", "t", "h", "e", "n">>,
               <<" ", " ", ".", "/", "d", "e", "p", "l", "o", "y", "-", "w", "i", "t", "h", "-", "t", "r", "a", "c", "k", ".", "s", "h", " ", "b", "a", "s", "h", " ", "-", "l", "c", " ">> \o escapedDeployCommand,
               <<"e", "l", "s", "e">>,
               <<" ", " ", "b", "a", "s", "h", " ", "-", "l", "c", " ">> \o escapedDeployCommand,
               <<"f", "i">>>>, <<"\n">>)

\* What sh makes of a command text: the commands, one per line, each the sequence of its
\* fields after quote removal. Between single quotes every character stands for itself;
\* between double quotes a backslash escapes $ " \ and the newline; outside quotes a
\* backslash escapes the next character, blanks end a field and a newline ends a command.
\* A $ that starts a parameter expansion, outside single quotes, gives a value that is not
\* in the text: the field gets the mark Expansion. A quote left open is a syntax error.
Expansion == "<expansion>"

ShStart == [mode |-> "plain", word |-> <<>>, started |-> FALSE, fields |-> <<>>, commands |-> <<>>]

shPut(st, c) == [st EXCEPT !.word = Append(@, c), !.started = TRUE]

shEndWord(st) ==
    IF st.started
    THEN [st EXCEPT !.fields = Append(@, st.word), !.word = <<>>, !.started = FALSE]
    ELSE st

shEndCommand(st) ==
    LET ended == shEndWord(st)
    IN  IF ended.fields = <<>> THEN ended
        ELSE [ended EXCEPT !.commands = Append(@, ended.fields), !.fields = <<>>]

StartsExpansion(next) == IsLetter(next) \/ next \in {"{", "(", "$", "?", "!", "#", "@", "*"}

\* one step of the scan at position i: the state after it and the next position
shStep(text, i, st) ==
    LET c == text[i]
        next == IF i < Len(text) THEN text[i + 1] ELSE ""
        one(after) == [st |-> after, i |-> i + 1]
        two(after) == [st |-> after, i |-> i + 2]
    IN  CASE st.mode = "single" ->
                one(IF c = "'" THEN [st EXCEPT !.mode = "plain"] ELSE shPut(st, c))
          [] st.mode # "single" /\ c = "$" /\ StartsExpansion(next) -> one(shPut(st, Expansion))
          [] st.mode = "double" /\ ~(c = "$" /\ StartsExpansion(next)) ->
                IF c = "\"" THEN one([st EXCEPT !.mode = "plain"])
                ELSE IF c = "\\" /\ next = "\n" THEN two(st)
                ELSE IF c = "\\" /\ next \in {"$", "\"", "\\"} THEN two(shPut(st, next))
                ELSE one(shPut(st, c))
          [] st.mode = "plain" /\ ~(c = "$" /\ StartsExpansion(next)) ->
                IF c = "'" THEN one([st EXCEPT !.mode = "single", !.started = TRUE])
                ELSE IF c = "\"" THEN one([st EXCEPT !.mode = "double", !.started = TRUE])
                ELSE IF c = "\\" /\ next = "\n" THEN two(st)
                ELSE IF c = "\\" /\ next = "" THEN one(shPut(st, c))
                ELSE IF c = "\\" THEN two(shPut(st, next))
                ELSE IF c \in {" ", "\t"} THEN one(shEndWord(st))
                ELSE IF c = "\n" THEN one(shEndCommand(st))
                ELSE one(shPut(st, c))

ScanStride == 16

\* the steps from position i up to, and not including, position stop
RECURSIVE shScanTo(_, _, _, _)
shScanTo(text, i, stop, st) ==
    IF i >= stop \/ i > Len(text) THEN [st |-> st, i |-> i]
    ELSE LET after == shStep(text, i, st) IN shScanTo(text, after.i, stop, after.st)

\* the scan of the whole text, a stride at a time
RECURSIVE shScan(_, _, _)
shScan(text, i, st) ==
    IF i > Len(text) THEN st
    ELSE LET after == shScanTo(text, i, i + ScanStride, st) IN shScan(text, after.i, after.st)

sh(text) ==
    LET st == shScan(text, 1, ShStart)
    IN  [error |-> st.mode # "plain",
         commands |-> IF st.mode # "plain" THEN <<>> ELSE shEndCommand(st).commands]

Bash == <<"b", "a", "s", "h">>

LoginCommand == <<"-", "l", "c">>

\* what `bash -lc <script>` reads, for the one command `top` that was started
ScriptOf(top) ==
    IF Len(top) = 1 /\ Len(top[1]) = 3 /\ top[1][1] = Bash /\ top[1][2] = LoginCommand
    THEN Some(top[1][3]) ELSE Absent

\* runAutoDeploy up to the start of the script. With a target host, ssh hands its last
\* argument to the login shell of the account, which parses it; without one, bash is
\* started with the script as its argument. `commands` is what that bash reads.
runAutoDeploy(project, branch) ==
    LET script == buildAutoDeployScript(project, branch)
        targetHost == trim(project.remoteHost)
        top == IF targetHost # <<>>
               THEN sh(Bash \o <<" ">> \o LoginCommand \o <<" ">> \o shellQuote(script)).commands
               ELSE <<<<Bash, LoginCommand, script>>>>
    IN  [kind |-> "deploy", remote |-> targetHost # <<>>, project |-> project, input |-> branch,
         script |-> ScriptOf(top),
         commands |-> IF ScriptOf(top).present THEN sh(ScriptOf(top).value) ELSE sh(<<"'">>)]

Echo == <<"e", "c", "h", "o">>

\* sh -c "echo <word>" for the word shellQuote makes of a string
echoQuoted(input) ==
    [kind |-> "echo", remote |-> FALSE, project |-> <<>>, input |-> input, script |-> Absent,
     commands |-> sh(Echo \o <<" ">> \o shellQuote(input))]

RunAutoDeploy(i, branch) ==
    /\ shellRun = <<>>
    /\ i \in DOMAIN autoDeployProjects
    /\ shellRun' = <<runAutoDeploy(autoDeployProjects[i], branch)>>
    /\ UNCHANGED <<configVars, queueVars, exchange, limitRead, screenshotVars>>

EchoQuoted(input) ==
    /\ shellRun = <<>>
    /\ shellRun' = <<echoQuoted(input)>>
    /\ UNCHANGED <<configVars, queueVars, exchange, limitRead, screenshotVars>>

ShellDone ==
    /\ shellRun # <<>>
    /\ shellRun' = <<>>
    /\ UNCHANGED <<configVars, queueVars, exchange, limitRead, screenshotVars>>

(* Strings and projects of the shell *)

ShellChars == {"a", "'", " ", "\"", "\\", "$", "\n"}

RECURSIVE ShellStringsUpTo(_)
ShellStringsUpTo(n) ==
    IF n = 0 THEN {<<>>}
    ELSE LET shorter == ShellStringsUpTo(n - 1)
         IN  shorter \cup {Append(s, c) : s \in shorter, c \in ShellChars}

ShellStrings == ShellStringsUpTo(MaxWordLen)

\* branchFromRef gives a branch that is not empty and does not end in white space
BranchNames == {s \in ShellStrings : s # <<>> /\ s[Len(s)] \notin {" ", "\n"}}

EntryQuoted ==
    RawEntry(Some(<<"Q", "u", "o", "t", "e", "d">>), Some(<<"o", "/", "q">>), Some(<<"*">>), Some(<<"/", "s", "r", "v", "/", "o", "'", "b", " ", "c">>),
             Some(<<"m", "a", "k", "e", " ", "'", "x", " ", "$", "y", "'", " ", "\"", "z", "\"">>),
             Absent)

EntryQuotedRemote ==
    RawEntry(Some(<<"Q", "u", "o", "t", "e", "d", " ", "R", "e", "m", "o", "t", "e">>), Some(<<"o", "/", "r">>), Some(<<"*">>), Some(<<"/", "s", "r", "v", "/", "o", "'", "b", " ", "c">>),
             Some(<<"m", "a", "k", "e", " ", "'", "x", " ", "$", "y", "'", " ", "\"", "z", "\"">>),
             Some(<<"d", "e", "p", "l", "o", "y", "@", "v", "p", "s", "1">>))

RegistryQuoted == <<EntryQuoted, EntryQuotedRemote>>

----------------------------------------------------------------------------
(* Registries, environments, files and queries of the reads *)

HostAcme == <<"a", "c", "m", "e", ".", "e", "x", "a", "m", "p", "l", "e", ".", "c", "o", "m">>

RemoteHost == <<"u", "@", "h">>

EntryAcmeApp ==
    WithDomains(RawEntry(Some(<<"A", "c", "m", "e", " ", "A", "p", "p">>), Some(<<"o", "/", "a", "c", "m", "e", "-", "a", "p", "p">>), Some(BranchMain),
                         Some(<<"/", "a">>), Some(<<"x">>), Absent),
                <<"A", "c", "m", "e", ".", "E", "x", "a", "m", "p", "l", "e", ".", "c", "o", "m", ",", " ">>)

EntryBetaApp ==
    RawEntry(Some(<<"B", "e", "t", "a", " ", "A", "p", "p">>), Some(<<"o", "/", "b", "e", "t", "a", "-", "a", "p", "p">>), Some(BranchMain),
             Some(<<"/", "b">>), Some(<<"x">>), Absent)

EntryApp ==
    RawEntry(Some(<<"a", "p", "p">>), Some(<<"o", "/", "a", "p", "p">>), Some(BranchMain), Some(<<"/", "p">>), Some(<<"x">>), Absent)

EntryAppV2 ==
    RawEntry(Some(<<"a", "p", "p", "-", "v", "2">>), Some(<<"o", "/", "a", "p", "p", "-", "v", "2">>), Some(BranchMain), Some(<<"/", "q">>), Some(<<"x">>), Absent)

RegistryAcmeApp == <<EntryAcmeApp>>

RegistryAcmeAppBeta == <<EntryAcmeApp, EntryBetaApp>>

RegistryAcmeFirst == <<EntryAcmeMain, EntryAcmeApp>>

RegistryApps == <<EntryApp, EntryAppV2>>

\* the tracker and, through AUTO_DEPLOY_REMOTE_HOST's default, the access log are remote
EnvRemote == [EnvUnset EXCEPT !.DEPLOY_TRACKER_REMOTE_HOST = Some(RemoteHost)]

\* only the access log is remote; beta-app has a preview URL
EnvLogsRemote ==
    [EnvUnset EXCEPT !.REQUEST_LOG_REMOTE_HOST = Some(RemoteHost),
                     !.perProject = {<<<<"B", "E", "T", "A", "_", "A", "P", "P", "_", "P", "R", "E", "V", "I", "E", "W", "_", "U", "R", "L">>, <<"h", "t", "t", "p", "s", ":", "/", "/", "b", "e", "t", "a", ".", "e", "x", "a", "m", "p", "l", "e", ".", "c", "o", "m", "/">>>>}]

\* <<AUTO_DEPLOY_PROJECTS, environment>>
ReadConfigs ==
    {<<RegistryEmpty, EnvUnset>>, <<RegistryAcmeApp, EnvUnset>>, <<RegistryAcmeAppBeta, EnvUnset>>,
     <<RegistryAcmeFirst, EnvUnset>>, <<RegistryApps, EnvUnset>>,
     <<RegistryAcmeAppBeta, EnvRemote>>, <<RegistryAcmeAppBeta, EnvLogsRemote>>}

NginxRequest(path) == <<"G", "E", "T", " ">> \o path \o <<" ", "H", "T", "T", "P", "/", "1", ".", "1">>

AccessLines ==
    {JsonLine(Absent, Some(HostAcme), Some(<<"/", "b", "e", "t", "a", "-", "a", "p", "p", "/">>), Some(<<"1">>)),
     JsonLine(Absent, Absent, Some(<<"/", "b", "e", "t", "a", "-", "a", "p", "p", "/", "x">>), Some(<<"2">>)),
     JsonLine(Some(<<"n", "o", "p", "e">>), Absent, Some(<<"/", "x">>), Some(<<"3">>)),
     JsonLine(Some(<<"B", "e", "t", "a", " ", "A", "p", "p">>), Some(HostAcme), Some(<<"/", "a", "c", "m", "e", "-", "a", "p", "p", "/">>), Some(<<"2">>)),
     JsonLine(Some(<<"a", "c", "m", "e", "-", "a", "p", "p">>), Absent, Some(<<"/", "v", "1", "/", "l", "o", "g", "s", "?", "l", "i", "m", "i", "t", "=", "5">>), Some(<<"3">>)),
     JsonLine(Some(<<"a", "c", "m", "e", "-", "a", "p", "p">>), Some(<<"l", "o", "c", "a", "l", "h", "o", "s", "t", ":", "3", "0", "0", "0">>), Some(<<"/", "x">>), Some(<<"3">>)),
     NginxLine(<<"z">>, NginxRequest(<<"/", "y">>), <<<<"h", "t", "t", "p", "s", ":", "/", "/", "a", "c", "m", "e", ".", "e", "x", "a", "m", "p", "l", "e", ".", "c", "o", "m", "/", "a">>, <<"c", "u", "r", "l">>>>),
     NginxLine(<<"1">>, NginxRequest(<<"/", "a", "p", "p", "-", "v", "2", "/", "x">>), <<<<"-">>, <<"M", "o", "z", "i", "l", "l", "a", " ", "5">>>>),
     MalformedLine("partial")}

TrackerLines ==
    {TrackerLine("object", Some(<<"A", "c", "m", "e", " ", "A", "p", "p">>), Some(<<"d", "1">>)),
     TrackerLine("object", Some(<<"b", "e", "t", "a", "-", "a", "p", "p">>), Some(<<"d", "2">>)),
     TrackerLine("object", Some(<<"a", "c", "m", "e", "-", "a", "p", "p", "-", "v", "2">>), Absent),
     TrackerLine("object", Some(<<"!", "!", "!">>), Absent),
     TrackerLine("object", Absent, Some(<<"d", "3">>)),
     TrackerLine("badtype", Absent, Absent),
     TrackerLine("null", Absent, Absent),
     TrackerLine("text", Absent, Absent),
     TrackerLine("partial", Absent, Absent),
     TrackerLine("blank", Absent, Absent)}

NoFiles == Source(FALSE, <<>>, Absent)

\* the files of at most n lines
RECURSIVE FilesUpTo(_, _)
FilesUpTo(lines, n) ==
    IF n = 0 THEN {<<>>}
    ELSE LET shorter == FilesUpTo(lines, n - 1)
         IN  shorter \cup {Append(file, line) : file \in shorter, line \in lines}

\* remote and local hold the same file; or ssh fails, or there is no local file
Sources(lines) ==
    {Source(TRUE, file, Some(file)) : file \in FilesUpTo(lines, MaxLines)}
    \cup {Source(FALSE, <<>>, Some(file)) : file \in FilesUpTo(lines, 1)}
    \cup {Source(TRUE, file, Absent) : file \in FilesUpTo(lines, 1)}
    \cup {NoFiles}

LogSources == Sources(AccessLines)

TrackerSources == Sources(TrackerLines)

Clock == {5}

ProjectValues == {Absent, Some(<<"A", "c", "m", "e", " ", "A", "p", "p">>), Some(<<"b", "e", "t", "a", "-", "a", "p", "p">>), Some(<<"n", "o", "p", "e">>)}

LogQueries ==
    {Query(project, Absent, Absent, Absent) : project \in {Absent, Some(<<"A", "c", "m", "e", " ", "A", "p", "p">>), Some(<<"n", "o", "p", "e">>)}}
    \cup {Query(Absent, Some(<<"1">>), Absent, Absent),
          Query(Absent, Absent, Some(<<"2">>), Absent),
          Query(Absent, Absent, Some(<<"2">>), Some(<<"3">>)),
          Query(Absent, Absent, Some(<<"3">>), Some(<<"z">>))}

DeploymentQueries ==
    {Query(project, limit, Absent, Absent) : project \in ProjectValues, limit \in {Absent, Some(<<"1">>)}}

\* the latest deployment of a project: the handler reads no limit
LatestQueries == {Query(project, Absent, Absent, Absent) : project \in ProjectValues}

----------------------------------------------------------------------------
(* Long tracker logs *)

MaxTrackedLines == 2

TrackedEarly == <<"2", "0", "2", "4">>

TrackedLate == <<"2", "0", "2", "5">>

\* deployments of acme-app and of beta-app; the external script writes trackedAt, and
\* nothing orders the lines of the file by it
TrackedLines ==
    {TrackedLine(Some(<<"A", "c", "m", "e", " ", "A", "p", "p">>), Some(<<"d", "1">>), Some(TrackedLate)),
     TrackedLine(Some(<<"a", "c", "m", "e", "-", "a", "p", "p">>), Some(<<"d", "2">>), Some(TrackedEarly)),
     TrackedLine(Some(<<"a", "c", "m", "e", "-", "a", "p", "p">>), Some(<<"d", "3">>), Absent),
     TrackedLine(Some(<<"b", "e", "t", "a", "-", "a", "p", "p">>), Some(<<"d", "4">>), Some(TrackedLate))}

\* n deployments of beta-app appended one after the other
Padding(n) ==
    [i \in 1..n |-> TrackedLine(Some(<<"b", "e", "t", "a", "-", "a", "p", "p">>), Some(<<"d", "5">>), Some(TrackedLate))]

\* around the two sizes of the window of a remote read: 100 lines, and 5 lines per
\* record asked for
PaddingLengths ==
    {0, TrackerTailLines - 1, TrackerTailLines,
     21 * TrackerTailMultiplier - 1, 21 * TrackerTailMultiplier}

\* the same log on the remote host and in the local file
LongSources ==
    {Source(TRUE, head \o Padding(n), Some(head \o Padding(n))) :
        head \in FilesUpTo(TrackedLines, MaxTrackedLines), n \in PaddingLengths}

TrackerQueries ==
    {Query(Some(<<"A", "c", "m", "e", " ", "A", "p", "p">>), limit, Absent, Absent) :
        limit \in {Some(<<"1">>), Some(<<"2">>), Some(<<"2", "1">>)}}

----------------------------------------------------------------------------
(* Screenshot requests *)

\* the tracker as the deployments of acme-app go on: d1 is being pulled, d1 is ready,
\* d2 is ready
ScreenshotTrackers ==
    {<<>>,
     <<StatusLine(Some(<<"A", "c", "m", "e", " ", "A", "p", "p">>), Some(<<"d", "1">>), Some(<<"P", "u", "l", "l", "i", "n", "g">>))>>,
     <<StatusLine(Some(<<"A", "c", "m", "e", " ", "A", "p", "p">>), Some(<<"d", "1">>), Some(<<"P", "u", "l", "l", "i", "n", "g">>)),
       StatusLine(Some(<<"A", "c", "m", "e", " ", "A", "p", "p">>), Some(<<"d", "1">>), Some(StatusReady))>>,
     <<StatusLine(Some(<<"A", "c", "m", "e", " ", "A", "p", "p">>), Some(<<"d", "1">>), Some(StatusReady)),
       StatusLine(Some(<<"A", "c", "m", "e", " ", "A", "p", "p">>), Some(<<"d", "2">>), Absent)>>}

ScreenshotSources == {Source(TRUE, file, Some(file)) : file \in ScreenshotTrackers}

\* acme-app with and without refresh=1; beta-app has no preview URL; nope is not configured
ScreenshotQueries ==
    {ScreenshotQuery(Absent, Absent),
     ScreenshotQuery(Some(<<"A", "c", "m", "e", " ", "A", "p", "p">>), Some(<<"1">>)),
     ScreenshotQuery(Some(<<"b", "e", "t", "a", "-", "a", "p", "p">>), Absent),
     ScreenshotQuery(Some(<<"n", "o", "p", "e">>), Absent)}

----------------------------------------------------------------------------
(* Project names *)

MaxSlugLen == 4

SlugChars == {"a", "B", "1", "-", " ", "_"}

RECURSIVE SlugStringsUpTo(_)
SlugStringsUpTo(n) ==
    IF n = 0 THEN {<<>>}
    ELSE LET shorter == SlugStringsUpTo(n - 1)
         IN  shorter \cup {Append(s, c) : s \in shorter, c \in SlugChars}

\* ?project=<s> for every string of the alphabet, the empty one included
SlugQueries == {Query(Some(s), Absent, Absent, Absent) : s \in SlugStringsUpTo(MaxSlugLen)}

\* AUTO_DEPLOY_PROJECTS with a first project of any name, followed by Acme App
EntryNamed(name) ==
    RawEntry(Some(name), Some(<<"o", "/", "n">>), Some(BranchMain), Some(<<"/", "n">>), Some(<<"x">>), Absent)

MaxNameLen == 2

NamedRegistries == {<<EntryNamed(name), EntryAcmeApp>> : name \in SlugStringsUpTo(MaxNameLen)}

\* lines without a hint and without a host: one names acme-app in its path, one names nothing
NamedLines ==
    {JsonLine(Absent, Absent, Some(<<"/", "a", "c", "m", "e", "-", "a", "p", "p", "/">>), Some(<<"1">>)),
     JsonLine(Absent, Absent, Some(<<"/", "x">>), Some(<<"2">>))}

----------------------------------------------------------------------------
(* Specifications *)

InitState ==
    /\ shellRun = <<>>
    /\ autoDeployQueues = EmptyQueues
    /\ jobs = <<>>
    /\ exchange = <<>>
    /\ limitRead = <<>>
    /\ screenshotQueues = EmptyQueues
    /\ captures = <<>>
    /\ screenshotRequests = <<>>
    /\ screenshotFiles = {}

\* The queue: the feature is enabled in token mode, pushes are accepted. The callbacks of
\* the promises (StartJob, FinalizeJob) and the exits of the subprocesses (ExitJob) are
\* steps of their own and interleave freely with the handler: every order the event loop
\* can produce is among the behaviours.
Init ==
    /\ processEnv = EnvUnset
    /\ autoDeployEnabled = TRUE
    /\ autoDeployWebhookToken = TokenGood
    /\ githubWebhookSecret = <<>>
    /\ \E raw \in QueueRegistries :
          autoDeployProjects = parseAutoDeployProjects(raw, autoDeployDefaultRemoteHost)
    /\ InitState

Next ==
    \/ \E req \in QueueRequests : Webhook(req)
    \/ Respond
    \/ \E j \in 1..MaxJobs : StartJob(j)
    \/ \E j \in 1..MaxJobs : \E outcome \in {"ok", "nonzero", "timeout", "sshfail"} : ExitJob(j, outcome)
    \/ \E j \in 1..MaxJobs : FinalizeJob(j)

Spec == Init /\ [][Next]_vars

\* The queue under the scheduling of Node: a promise callback that is ready to run does
\* run (weak fairness of StartJob), and a script that runs does exit: execFileAsync is
\* given the timeout autoDeployTimeoutMs, which kills the subprocess (weak fairness of
\* ExitJob). Nothing is assumed of the requests. The registry holds two branches of one
\* project: two keys, whose jobs interleave.
InitFair ==
    /\ processEnv = EnvUnset
    /\ autoDeployEnabled = TRUE
    /\ autoDeployWebhookToken = TokenGood
    /\ githubWebhookSecret = <<>>
    /\ autoDeployProjects = parseAutoDeployProjects(RegistryTwoBranches, autoDeployDefaultRemoteHost)
    /\ InitState

FairSpec ==
    /\ InitFair /\ [][Next]_vars
    /\ \A j \in 1..MaxJobs : WF_vars(StartJob(j))
    /\ \A j \in 1..MaxJobs : WF_vars(\E outcome \in {"ok", "nonzero", "timeout", "sshfail"} : ExitJob(j, outcome))

\* The webhook handler alone, under every configuration of the feature flag, the two
\* auth modes and the registry.
InitWebhook ==
    /\ processEnv = EnvUnset
    /\ autoDeployEnabled \in BOOLEAN
    /\ autoDeployWebhookToken \in {<<>>, TokenGood}
    /\ githubWebhookSecret \in {<<>>, SecretGood}
    /\ \E raw \in WebhookRegistries :
          autoDeployProjects = parseAutoDeployProjects(raw, autoDeployDefaultRemoteHost)
    /\ InitState

NextWebhook ==
    \/ \E req \in Requests : Webhook(req)
    \/ Respond

SpecWebhook == InitWebhook /\ [][NextWebhook]_vars

\* The read endpoints and their limit parameter.
InitLimit ==
    /\ processEnv = EnvUnset
    /\ autoDeployEnabled = FALSE
    /\ autoDeployWebhookToken = <<>>
    /\ githubWebhookSecret = <<>>
    /\ autoDeployProjects = <<>>
    /\ InitState

\* queries that differ in their limit, for the fallback project and for an unknown one
LimitQueries == {Query(project, rawLimit, Absent, Absent) :
                    project \in {Absent, Some(<<"n", "o", "p", "e">>)}, rawLimit \in RawLimits}

NextLimit ==
    \/ \E query \in LimitQueries : GetLogs(query, NoFiles, 0)
    \/ \E query \in LimitQueries : GetDeployments(query, NoFiles)
    \/ \E query \in LimitQueries : GetLatestDeployment(query, NoFiles)
    \/ ReadDone

SpecLimit == InitLimit /\ [][NextLimit]_vars

\* The reads of the access log and of the deployment tracker, under several registries
\* and environments.
InitReads ==
    /\ autoDeployEnabled = FALSE
    /\ autoDeployWebhookToken = <<>>
    /\ githubWebhookSecret = <<>>
    /\ \E config \in ReadConfigs :
          /\ processEnv = config[2]
          /\ autoDeployProjects = parseAutoDeployProjects(config[1], autoDeployDefaultRemoteHost)
    /\ InitState

NextReads ==
    \/ /\ limitRead = <<>>
       /\ \E query \in LogQueries, source \in LogSources, now \in Clock :
             GetLogs(query, source, now)
    \/ /\ limitRead = <<>>
       /\ \E query \in DeploymentQueries, source \in TrackerSources :
             GetDeployments(query, source)
    \/ /\ limitRead = <<>>
       /\ \E query \in LatestQueries, source \in TrackerSources :
             GetLatestDeployment(query, source)
    \/ ReadDone

SpecReads == InitReads /\ [][NextReads]_vars

\* The reads of a tracker log longer than the window of a remote read, in local and in
\* remote mode.
InitTracker ==
    /\ autoDeployEnabled = FALSE
    /\ autoDeployWebhookToken = <<>>
    /\ githubWebhookSecret = <<>>
    /\ processEnv \in {EnvUnset, EnvRemote}
    /\ autoDeployProjects = parseAutoDeployProjects(RegistryAcmeAppBeta, autoDeployDefaultRemoteHost)
    /\ InitState

NextTracker ==
    \/ \E query \in TrackerQueries, source \in LongSources : GetDeployments(query, source)
    \/ \E query \in TrackerQueries, source \in LongSources : GetLatestDeployment(query, source)
    \/ ReadDone

SpecTracker == InitTracker /\ [][NextTracker]_vars

\* The screenshot endpoint under concurrent requests: every await of the handler is a
\* point where the other handlers, the exits of the subprocesses and the callbacks of
\* their promises can run.
InitScreenshot ==
    /\ autoDeployEnabled = FALSE
    /\ autoDeployWebhookToken = <<>>
    /\ githubWebhookSecret = <<>>
    /\ processEnv = EnvUnset
    /\ autoDeployProjects = parseAutoDeployProjects(RegistryAcmeAppBeta, autoDeployDefaultRemoteHost)
    /\ InitState

NextScreenshot ==
    \/ \E query \in ScreenshotQueries, source \in ScreenshotSources : ScreenshotArrive(query, source)
    \/ \E r \in 1..MaxScreenshotRequests : ScreenshotStat(r)
    \/ \E r \in 1..MaxScreenshotRequests : ScreenshotDecide(r)
    \/ \E c \in 1..MaxScreenshotRequests : \E outcome \in {"ok", "failed"} : CaptureExit(c, outcome)
    \/ \E c \in 1..MaxScreenshotRequests : CaptureFinally(c)
    \/ \E r \in 1..MaxScreenshotRequests : ScreenshotResume(r)

SpecScreenshot == InitScreenshot /\ [][NextScreenshot]_vars

\* The project parameter of the read endpoints, under a registry of one project: a name
\* that is not configured is answered 400 with its slug in the message.
InitSlug ==
    /\ autoDeployEnabled = FALSE
    /\ autoDeployWebhookToken = <<>>
    /\ githubWebhookSecret = <<>>
    /\ processEnv = EnvUnset
    /\ autoDeployProjects = parseAutoDeployProjects(RegistryAcmeApp, autoDeployDefaultRemoteHost)
    /\ InitState

NextSlug ==
    \/ \E query \in SlugQueries : GetDeployments(query, NoFiles)
    \/ \E query \in SlugQueries : GetLogs(query, NoFiles, 0)
    \/ ReadDone

SpecSlug == InitSlug /\ [][NextSlug]_vars

\* The registry as it is loaded from AUTO_DEPLOY_PROJECTS for every name of a first
\* project, and reads of the access log under it.
InitRegistry ==
    /\ autoDeployEnabled = FALSE
    /\ autoDeployWebhookToken = <<>>
    /\ githubWebhookSecret = <<>>
    /\ processEnv = EnvUnset
    /\ \E raw \in NamedRegistries :
          autoDeployProjects = parseAutoDeployProjects(raw, autoDeployDefaultRemoteHost)
    /\ InitState

NextRegistry ==
    \/ \E source \in Sources(NamedLines) :
          GetLogs(Query(Absent, Absent, Absent, Absent), source, 5)
    \/ ReadDone

SpecRegistry == InitRegistry /\ [][NextRegistry]_vars

InitShell ==
    /\ autoDeployEnabled = TRUE
    /\ autoDeployWebhookToken = TokenGood
    /\ githubWebhookSecret = <<>>
    /\ processEnv = EnvUnset
    /\ autoDeployProjects = parseAutoDeployProjects(RegistryQuoted, autoDeployDefaultRemoteHost)
    /\ InitState

NextShell ==
    \/ \E i \in 1..Len(RegistryQuoted), branch \in BranchNames : RunAutoDeploy(i, branch)
    \/ \E input \in ShellStrings : EchoQuoted(input)
    \/ ShellDone

SpecShell == InitShell /\ [][NextShell]_vars

----------------------------------------------------------------------------
(* The auto-deploy queue: claims *)

\* the script of the job has exited with a failure: non-zero exit, timeout or ssh failure
Failed(j) == jobs[j].script = "exited" /\ jobs[j].promise = "rejected"

SameKey(i, j) == jobs[i].queueKey = jobs[j].queueKey

\* C1: at most one job per queue key is running: two jobs submitted for the same key
\* never have their scripts executing at the same time.
C1_AtMostOneRunningPerKey ==
    \A i, j \in DOMAIN jobs :
        (i # j /\ SameKey(i, j) /\ jobs[i].script = "running") => jobs[j].script # "running"

\* a job was submitted for a key while an earlier job of the key is running, and waits
C1_Witness ==
    \E i, j \in DOMAIN jobs :
        i < j /\ SameKey(i, j) /\ jobs[i].script = "running" /\ jobs[j].script = "pending"

\* C2: within one key, jobs start in submission order: a later job's script has not
\* started unless the execution of every earlier job of the key has settled.
C2_StartInSubmissionOrder ==
    \A i, j \in DOMAIN jobs :
        (i < j /\ SameKey(i, j) /\ jobs[j].script # "pending") => jobs[i].script = "exited"

\* three jobs of one key, the first two settled (one of them failed), the third started
C2_Witness ==
    \E i, j, k \in DOMAIN jobs :
        /\ i < j /\ j < k /\ SameKey(i, j) /\ SameKey(j, k)
        /\ jobs[i].script = "exited" /\ jobs[j].script = "exited"
        /\ Failed(i)
        /\ jobs[k].script = "running"

SameProject(i, j) ==
    autoDeployProjects[jobs[i].project].projectSlug = autoDeployProjects[jobs[j].project].projectSlug

\* C3: a job accepted for branch b2 of a project is never made to wait for a job of
\* another branch b1 of that project that is pending or running.
C3_OtherBranchNeverWaits ==
    \A j \in DOMAIN jobs :
        LET p == jobs[j].previous
        IN  (p # 0 /\ jobs[j].script = "pending" /\ jobs[j].promise = "pending"
             /\ jobs[p].promise = "pending" /\ SameProject(p, j))
            => jobs[p].branch = jobs[j].branch

\* C4: a failed deploy does not block the queue: the failure of a job is not propagated
\* to the jobs queued after it, so no job settles without its own script having run, and
\* a job whose predecessor has settled, failed or not, can still be started.
C4_FailureNotPropagated ==
    \A j \in DOMAIN jobs :
        /\ jobs[j].promise # "pending" => jobs[j].script = "exited"
        /\ (jobs[j].script = "pending" /\ PromiseState(jobs[j].previous) # "pending") => ENABLED StartJob(j)

\* a job queued behind a job whose script failed has been started
C4_Witness ==
    \E j \in DOMAIN jobs :
        /\ jobs[j].previous # 0
        /\ Failed(jobs[j].previous)
        /\ jobs[j].script = "running"

\* C5: the reply "queued" is produced by the handler itself, with status 202 and the
\* jobId of the job just created, while that job's script has not started; no later
\* step of a job changes the reply.
C5_Step ==
    /\ (exchange = <<>> /\ exchange' # <<>> /\ exchange'[1].reply.body = "queued")
          => /\ exchange'[1].reply.status = 202
             /\ Len(jobs') = Len(jobs) + 1
             /\ exchange'[1].reply.jobId = Len(jobs')
             /\ jobs'[Len(jobs')].script = "pending"
             /\ jobs'[Len(jobs')].promise = "pending"
    /\ (exchange = <<>> /\ exchange' # <<>> /\ Len(jobs') # Len(jobs))
          => exchange'[1].reply.body = "queued"
    /\ (exchange # <<>> /\ exchange' # <<>>) => exchange' = exchange

C5_RepliedBeforeStart == [][C5_Step]_vars

\* the job of a reply "queued" has failed while the reply is still being written
C5_Witness ==
    /\ exchange # <<>>
    /\ exchange[1].reply.body = "queued"
    /\ exchange[1].reply.status = 202
    /\ Failed(exchange[1].reply.jobId)

JobsOfKey(key) == {j \in DOMAIN jobs : jobs[j].queueKey = key}

\* the job submitted last for the key
LatestOf(key) == CHOOSE j \in JobsOfKey(key) : \A i \in JobsOfKey(key) : i <= j

SubmittedKeys == {jobs[j].queueKey : j \in DOMAIN jobs}

C27_Step ==
    /\ \A j \in DOMAIN jobs :
          /\ j \in DOMAIN jobs'
          /\ jobs[j].script = "running" => jobs'[j].script \in {"running", "exited"}
          /\ jobs[j].script = "exited" => jobs'[j].script = "exited"
          /\ jobs[j].promise # "pending" => jobs'[j].promise = jobs[j].promise
    /\ Len(jobs') # Len(jobs) =>
          /\ Len(jobs') = Len(jobs) + 1
          /\ exchange = <<>> /\ exchange' # <<>>
          /\ exchange'[1].reply.body = "queued"

C27_ExecutedAtMostOnce == [][C27_Step]_vars

\* a job whose script failed has been cleaned up, and a later job of its key has been
\* started and has exited as well
C27_Witness ==
    \E i, j \in DOMAIN jobs :
        /\ i < j /\ SameKey(i, j)
        /\ Failed(i) /\ jobs[i].finalized
        /\ jobs[j].script = "exited" /\ jobs[j].finalized

\* C26: every accepted job eventually starts: given that every script that runs exits,
\* the script of a job that has been created is eventually started, whatever number of
\* jobs precede it on its key and whether they succeed or fail.
C26_EveryJobStarts ==
    \A j \in 1..MaxJobs : (j \in DOMAIN jobs) ~> (j \in DOMAIN jobs /\ jobs[j].script # "pending")

\* a job has started behind two jobs of its key, the first succeeded and the second failed
C26_Witness ==
    \E j \in DOMAIN jobs :
        /\ jobs[j].previous # 0
        /\ jobs[jobs[j].previous].previous # 0
        /\ Failed(jobs[j].previous)
        /\ jobs[jobs[jobs[j].previous].previous].promise = "fulfilled"
        /\ jobs[j].script # "pending"

SameWorkingTree(i, j) ==
    /\ autoDeployProjects[jobs[i].project].repoPath = autoDeployProjects[jobs[j].project].repoPath
    /\ autoDeployProjects[jobs[i].project].remoteHost = autoDeployProjects[jobs[j].project].remoteHost

\* C28: two deploy scripts never run at the same time against the same repoPath on the
\* same target host.
C28_OneScriptPerWorkingTree ==
    \A i, j \in DOMAIN jobs :
        (i # j /\ SameWorkingTree(i, j) /\ jobs[i].script = "running") => jobs[j].script # "running"

----------------------------------------------------------------------------
(* The webhook handler: claims *)

Handled == exchange # <<>>

Req == exchange[1].request

Rep == exchange[1].reply

TokenMode == autoDeployWebhookToken # <<>>

SignatureMode == autoDeployWebhookToken = <<>> /\ githubWebhookSecret # <<>>

SignatureVerifies(req) ==
    verifyGitHubSignature(trim(OrElse(req.signature, <<>>)), req.body, githubWebhookSecret)

EventOf(req) == toLowerCase(trim(OrElse(req.event, <<>>)))

UnauthenticatedTrimmed(req) ==
    \/ TokenMode /\ trim(OrElse(req.token, <<>>)) # autoDeployWebhookToken
    \/ SignatureMode /\ ~SignatureVerifies(req)

\* C6 amended: a request whose trimmed query token differs from the configured token
\* (token mode), or whose signature header does not verify (signature mode), leaves the
\* queue unchanged whatever its event type and payload; it is answered 400 when its body
\* is not a JSON object, 503 when the feature is disabled, and 401 otherwise.
C6_Step ==
    (exchange = <<>> /\ exchange' # <<>> /\ UnauthenticatedTrimmed(exchange'[1].request))
        => /\ jobs' = jobs
           /\ autoDeployQueues' = autoDeployQueues
           /\ exchange'[1].reply.jobId = 0
           /\ exchange'[1].reply.body = "error"
           /\ exchange'[1].reply.status =
                 IF ~exchange'[1].request.body.isObject THEN 400
                 ELSE IF ~autoDeployEnabled THEN 503 ELSE 401

C7_ExactlyOneAuthMode ==
    (Handled /\ (autoDeployWebhookToken = <<>>) = (githubWebhookSecret = <<>>))
        => (Rep.body # "queued" /\ Rep.jobId = 0)

\* the request passed the payload, feature, configuration and credential checks
PassedAuth(req) ==
    /\ req.body.isObject
    /\ autoDeployEnabled
    /\ TokenMode \/ SignatureMode
    /\ ~UnauthenticatedTrimmed(req)

IsBranchRefExact(ref) ==
    ref.present /\ startsWith(ref.value, RefsHeads) /\ Len(ref.value) > Len(RefsHeads)

IsBranchRef(ref) ==
    ref.present /\ startsWith(trim(ref.value), RefsHeads) /\ Len(trim(ref.value)) > Len(RefsHeads)

RepositoryIdentity(req) ==
    LET name == IF req.body.repository.present
                THEN trim(OrElse(req.body.repository.name, <<>>)) ELSE <<>>
    IN  IF req.body.repository.present
        THEN trim(OrElse(req.body.repository.full_name, name)) ELSE name

Ignored(rep) == rep.status = 202 /\ rep.body = "ignored" /\ rep.jobId = 0

\* C8 as stated: a job is queued only for an authenticated push whose ref is
\* refs/heads/<non-empty branch>, not deleted, with a repository identity; ping returns
\* success, and another event, a non-branch ref and a deleted push each return "ignored".
C8_QueuedOnlyForBranchPush ==
    Handled =>
        /\ Rep.body = "queued" =>
              /\ PassedAuth(Req) /\ EventOf(Req) = EventNamePush
              /\ IsBranchRefExact(Req.body.ref) /\ ~Req.body.deleted
              /\ RepositoryIdentity(Req) # <<>>
        /\ (PassedAuth(Req) /\ EventOf(Req) = EventNamePing)
              => (Rep.status = 200 /\ Rep.body = "ok" /\ Rep.jobId = 0)
        /\ (PassedAuth(Req) /\ EventOf(Req) \notin {EventNamePing, EventNamePush}) => Ignored(Rep)
        /\ (PassedAuth(Req) /\ EventOf(Req) = EventNamePush /\ ~IsBranchRefExact(Req.body.ref))
              => Ignored(Rep)
        /\ (PassedAuth(Req) /\ EventOf(Req) = EventNamePush /\ Req.body.deleted) => Ignored(Rep)

\* C8 amended: a job is queued only for an authenticated push whose ref, trimmed of
\* surrounding blanks, is refs/heads/<non-empty branch>, not deleted, with a repository
\* identity; ping returns success and any other event "ignored"; with at least one project
\* configured a non-branch ref and a deleted push each return "ignored", and with an empty
\* registry every push is answered 500; none of these queues a job.
C8_Step ==
    (exchange = <<>> /\ exchange' # <<>>) =>
        LET req == exchange'[1].request
            rep == exchange'[1].reply
            event == EventOf(req)
        IN  /\ rep.body = "queued" =>
                  /\ PassedAuth(req) /\ event = EventNamePush
                  /\ IsBranchRef(req.body.ref) /\ ~req.body.deleted
                  /\ RepositoryIdentity(req) # <<>>
                  /\ Len(jobs') = Len(jobs) + 1
            /\ rep.body # "queued" => (jobs' = jobs /\ autoDeployQueues' = autoDeployQueues)
            /\ (PassedAuth(req) /\ event = EventNamePing)
                  => (rep.status = 200 /\ rep.body = "ok" /\ rep.jobId = 0)
            /\ (PassedAuth(req) /\ event \notin {EventNamePing, EventNamePush}) => Ignored(rep)
            /\ (PassedAuth(req) /\ event = EventNamePush /\ autoDeployProjects = <<>>)
                  => (rep.status = 500 /\ rep.body = "error" /\ rep.jobId = 0)
            /\ (PassedAuth(req) /\ event = EventNamePush /\ autoDeployProjects # <<>>
                /\ (~IsBranchRef(req.body.ref) \/ req.body.deleted))
                  => Ignored(rep)

C8_QueuedOnlyForTrimmedBranchPush == [][C8_Step]_vars

\* an authenticated push of a tag of a configured repository was ignored while a job
\* sits in the queue
C8_Witness ==
    /\ Handled
    /\ PassedAuth(Req)
    /\ EventOf(Req) = EventNamePush
    /\ Req.body.ref = Some(RefTag)
    /\ ~Req.body.deleted
    /\ Req.body.repository = RepositoryValues[2]
    /\ autoDeployProjects # <<>>
    /\ jobs # <<>>
    /\ Ignored(Rep)

\* the match of one project as C9 states it
ClaimedMatch(project, name, fullName, branch) ==
    /\ \/ includes(project.repository, "/") /\ toLowerCase(project.repository) = toLowerCase(fullName)
       \/ /\ ~includes(project.repository, "/")
          /\ canonicalRepoName(project.repository)
                = canonicalRepoName(IF name # <<>> THEN name ELSE fullName)
    /\ project.branch = BranchAny \/ project.branch = branch

ClaimedMatches(req) ==
    LET name == trim(OrElse(req.body.repository.name, <<>>))
        branch == slice(trim(req.body.ref.value), Len(RefsHeads))
    IN  {i \in DOMAIN autoDeployProjects :
            ClaimedMatch(autoDeployProjects[i], name, RepositoryIdentity(req), branch)}

ReachesMatching(req) ==
    /\ PassedAuth(req)
    /\ EventOf(req) = EventNamePush
    /\ autoDeployProjects # <<>>
    /\ IsBranchRef(req.body.ref)
    /\ ~req.body.deleted
    /\ RepositoryIdentity(req) # <<>>

\* C9: a push that reaches project matching is queued for the first configured project,
\* in configuration order, whose repository matches (by full name, case-insensitively,
\* when configured with "/", by canonical repo name otherwise) and whose branch is "*" or
\* the pushed branch; it is answered "ignored" when there is none.
C9_FirstMatchingProject ==
    (Handled /\ ReachesMatching(Req)) =>
        LET matching == ClaimedMatches(Req)
        IN  IF matching = {}
            THEN Ignored(Rep) /\ Rep.reason = "no matching project"
            ELSE /\ Rep.status = 202 /\ Rep.body = "queued"
                 /\ Rep.jobId \in DOMAIN jobs
                 /\ jobs[Rep.jobId].project \in matching
                 /\ \A i \in matching : jobs[Rep.jobId].project <= i
                 /\ jobs[Rep.jobId].branch = slice(trim(Req.body.ref.value), Len(RefsHeads))

\* a push matched by several configured projects was queued for one that is not the
\* first of the registry, the earlier ones being ruled out by repository or branch
C9_Witness ==
    /\ Handled
    /\ ReachesMatching(Req)
    /\ Cardinality(ClaimedMatches(Req)) >= 2
    /\ Rep.body = "queued"
    /\ jobs[Rep.jobId].project > 1

\* the checks of the handler, by name: TRUE when the request fails the check
CheckFails(check, req) ==
    CASE check = "payload" -> ~req.body.isObject
      [] check = "feature flag" -> ~autoDeployEnabled
      [] check = "auth mode" -> ~TokenMode /\ ~SignatureMode
      [] check = "credentials" -> UnauthenticatedTrimmed(req)
      [] check = "event" -> EventOf(req) # EventNamePush
      [] check = "registry" -> autoDeployProjects = <<>>
      [] check = "branch ref" -> ~IsBranchRef(req.body.ref)
      [] check = "branch deletion" -> req.body.deleted
      [] check = "repository" -> RepositoryIdentity(req) = <<>>

\* the status a failed check is answered with
StatusOf(check, req) ==
    CASE check = "payload" -> 400
      [] check = "feature flag" -> 503
      [] check = "auth mode" -> 500
      [] check = "credentials" -> 401
      [] check = "event" -> IF EventOf(req) = EventNamePing THEN 200 ELSE 202
      [] check = "registry" -> 500
      [] check = "branch ref" -> 202
      [] check = "branch deletion" -> 202
      [] check = "repository" -> 400

\* the first check of the order that the request fails, "none" when it passes them all
RECURSIVE FirstFailing(_, _)
FirstFailing(order, req) ==
    IF order = <<>> THEN "none"
    ELSE IF CheckFails(Head(order), req) THEN Head(order)
    ELSE FirstFailing(Tail(order), req)

\* the reply is the one of the first failing check of the order; a request that passes
\* every check reaches project matching and is answered 202
DecidedBy(order) ==
    Handled =>
        LET first == FirstFailing(order, Req)
        IN  IF first = "none" THEN Rep.status = 202
            ELSE /\ Rep.status = StatusOf(first, Req)
                 /\ Rep.jobId = 0
                 /\ first \notin {"event", "branch ref", "branch deletion"} => Rep.body = "error"

StatedOrder ==
    <<"feature flag", "auth mode", "credentials", "event", "branch ref", "branch deletion",
      "repository">>

CodeOrder ==
    <<"payload", "feature flag", "auth mode", "credentials", "event", "registry", "branch ref",
      "branch deletion", "repository">>

----------------------------------------------------------------------------
(* The limit of the read endpoints: claims *)

\* C10: the limit used by every deployments read and every request-log read is within
\* [1,100], for every value of the limit parameter, absent, empty and non-numeric included.
C10_LimitWithinBounds ==
    (limitRead # <<>> /\ limitRead[1].read) => limitRead[1].limit \in 1..100

----------------------------------------------------------------------------
(* Reads of the access log and of the tracker: claims *)

LastRead == limitRead[1]

IsLogsRead == limitRead # <<>> /\ LastRead.route = "/v1/logs"

IsDeploymentsRead == limitRead # <<>> /\ LastRead.route # "/v1/logs"

RemoteConfigured ==
    IF LastRead.route = "/v1/logs" THEN requestLogRemoteHost # <<>>
    ELSE OrElse(remoteTrackerHost, <<>>) # <<>>

\* the lines of the file the read went to
LinesRead ==
    NonBlankLines(IF RemoteConfigured THEN LastRead.source.remoteFile
                  ELSE OrElse(LastRead.source.localFile, <<>>))

\* the entry returned for the k-th line of the access log, if there is one
ReturnedFor(k) == {i \in DOMAIN LastRead.data : LastRead.data[i].logId.index = k - 1}

TimestampParses(line) ==
    line.timestamp.present /\ DateParse(trim(line.timestamp.value)).finite

\* C11: in a request-log read with a lower time bound, a line whose timestamp fails to
\* parse counts as epoch 0 and is excluded from the result.
C11_UnparsedTimestampExcluded ==
    (IsLogsRead /\ LastRead.status = 200 /\ boundOf(LastRead.query.start).given)
        => \A k \in DOMAIN LinesRead : ReturnedFor(k) # {} => TimestampParses(LinesRead[k])

\* a read of the access log that keeps every line it attributes: no project filter, no
\* time bound, and a limit that is not reached
KeepsEveryLine ==
    /\ IsLogsRead /\ LastRead.status = 200
    /\ ~LastRead.query.project.present
    /\ ~LastRead.query.start.present /\ ~LastRead.query.end.present
    /\ Len(LinesRead) <= LastRead.limit

\* the line is parsed and is not the dashboard's own traffic
Attributable(line) ==
    /\ line.kind \in {"json", "nginx"}
    /\ ~isDashboardUsageRequest(normalizeHost(parseRequestLogLine(line).host),
                                parseRequestLogLine(line).path)

\* the slug the k-th line was attributed to, the empty string when it was dropped
AttributedSlug(k) ==
    IF ReturnedFor(k) = {} THEN <<>>
    ELSE LastRead.data[CHOOSE i \in ReturnedFor(k) : TRUE].projectSlug

ValidHint(line) ==
    LET hint == normalizeProject(OrElse(parseRequestLogLine(line).projectHint, <<>>))
    IN  /\ hint # <<>>
        /\ \/ \E i \in DOMAIN autoDeployProjects : autoDeployProjects[i].projectSlug = hint
           \/ autoDeployProjects = <<>> /\ hint = fallbackProjectSlug

HostMatchSlugs(line) ==
    LET normalizedHost == normalizeHost(parseRequestLogLine(line).host)
    IN  IF normalizedHost = <<>> THEN {}
        ELSE {autoDeployProjects[i].projectSlug : i \in
                {i \in DOMAIN autoDeployProjects : hostMatches(autoDeployProjects[i], normalizedHost)}}
             \cup (IF autoDeployProjects = <<>>
                      /\ resolveProjectPreviewHost(fallbackProjectSlug) = normalizedHost
                   THEN {fallbackProjectSlug} ELSE {})

TextMatchSlugs(line) ==
    LET parsedLine == parseRequestLogLine(line)
        haystack == toLowerCase(parsedLine.path \o <<" ">> \o parsedLine.message \o <<" ">>
                                \o normalizeHost(parsedLine.host))
    IN  {autoDeployProjects[i].projectSlug : i \in
            {i \in DOMAIN autoDeployProjects : textMatches(autoDeployProjects[i], haystack)}}

\* C12: attribution follows hint, then hostname, then text, then the number of projects:
\* a valid hint wins over every hostname or text match, a hostname match wins over every
\* text match; without a match the only configured project receives the line, no configured
\* project gives the fallback slug, and two or more leave the line dropped.
C12_AttributionPrecedence ==
    KeepsEveryLine =>
        \A k \in DOMAIN LinesRead :
            LET line == LinesRead[k]
                slug == AttributedSlug(k)
            IN  Attributable(line) =>
                    IF ValidHint(line)
                    THEN slug = normalizeProject(parseRequestLogLine(line).projectHint.value)
                    ELSE IF HostMatchSlugs(line) # {} THEN slug \in HostMatchSlugs(line)
                    ELSE IF TextMatchSlugs(line) # {} THEN slug \in TextMatchSlugs(line)
                    ELSE IF Len(autoDeployProjects) = 1 THEN slug = autoDeployProjects[1].projectSlug
                    ELSE IF Len(autoDeployProjects) = 0 THEN slug = fallbackProjectSlug
                    ELSE slug = <<>>

\* a line with a valid hint for one project, whose host and path match another one, has
\* been attributed to the project of the hint
C12_Witness ==
    /\ KeepsEveryLine
    /\ \E k \in DOMAIN LinesRead :
          /\ Attributable(LinesRead[k]) /\ ValidHint(LinesRead[k])
          /\ HostMatchSlugs(LinesRead[k]) # {} /\ TextMatchSlugs(LinesRead[k]) # {}
          /\ AttributedSlug(k) \notin (HostMatchSlugs(LinesRead[k]) \cup TextMatchSlugs(LinesRead[k]))
          /\ AttributedSlug(k) # <<>>

\* the projects that have the host of the line among their configured domains
DomainOwners(line) ==
    {i \in DOMAIN autoDeployProjects :
        normalizeHost(parseRequestLogLine(line).host) \in Range(autoDeployProjects[i].domains)}

\* C13: a line without a valid hint whose normalized host is a domain configured for
\* project P, and for no other project, is attributed to P, whatever other projects are
\* configured and in whatever order.
C13_ConfiguredDomainAttributes ==
    KeepsEveryLine =>
        \A k \in DOMAIN LinesRead :
            (Attributable(LinesRead[k]) /\ ~ValidHint(LinesRead[k]))
                => \A i \in DomainOwners(LinesRead[k]) :
                      Cardinality(DomainOwners(LinesRead[k])) = 1
                          => AttributedSlug(k) = autoDeployProjects[i].projectSlug

\* C14: a line without a valid hint and without a hostname match whose text matches the
\* slug of two or more configured projects is not attributed to one of them.
C14_NoGuessAmongTextMatches ==
    KeepsEveryLine =>
        \A k \in DOMAIN LinesRead :
            (/\ Attributable(LinesRead[k]) /\ ~ValidHint(LinesRead[k])
             /\ HostMatchSlugs(LinesRead[k]) = {}
             /\ Cardinality(TextMatchSlugs(LinesRead[k])) >= 2)
                => AttributedSlug(k) \notin TextMatchSlugs(LinesRead[k])

\* the path, cut at its query string, is /v1 or lies under /v1/<root> for a root of the
\* control API
HasControlRouteShape(path) ==
    LET route == firstPiece(trim(path), "?")
    IN  \/ route = V1Path
        \/ \E root \in ControlPlaneRoots :
              \/ route = V1Path \o <<"/">> \o root
              \/ startsWith(route, V1Path \o <<"/">> \o root \o <<"/">>)

IsDashboardTraffic(line) ==
    /\ line.kind \in {"json", "nginx"}
    /\ \/ HasControlRouteShape(parseRequestLogLine(line).path)
       \/ normalizeHost(parseRequestLogLine(line).host) \in dashboardKnownHosts

\* C15: a line whose path has the route shape of the control API, or whose host is a known
\* dashboard or API host, never appears in a request-log result, even when it carries a
\* hint that names a configured project.
C15_DashboardTrafficDropped ==
    (IsLogsRead /\ LastRead.status = 200)
        => \A k \in DOMAIN LinesRead : IsDashboardTraffic(LinesRead[k]) => ReturnedFor(k) = {}

\* a read went over two lines that carry a valid hint, one with a path of the control API
\* and one from a known dashboard host, and returned neither
C15_Witness ==
    /\ IsLogsRead /\ LastRead.status = 200
    /\ LastRead.data = <<>>
    /\ \E k \in DOMAIN LinesRead :
          /\ IsDashboardTraffic(LinesRead[k])
          /\ HasControlRouteShape(parseRequestLogLine(LinesRead[k]).path)
          /\ ValidHint(LinesRead[k])
    /\ \E k \in DOMAIN LinesRead :
          /\ IsDashboardTraffic(LinesRead[k])
          /\ ~HasControlRouteShape(parseRequestLogLine(LinesRead[k]).path)
          /\ ValidHint(LinesRead[k])

\* C16: a deployments read for project slug S returns only records of lines whose
\* projectName normalizes to S, never to another slug or to the empty string.
C16_OnlyRecordsOfTheProject ==
    (IsDeploymentsRead /\ LastRead.status = 200)
        => \A i \in DOMAIN LastRead.data :
              LET line == LinesRead[LastRead.data[i].line]
                  slug == normalizeProject(OrElse(line.projectName, <<>>))
              IN  /\ line.kind = "object"
                  /\ slug # <<>>
                  /\ slug = resolveProjectSlug(LastRead.query.project)

\* a read returned a record from a file that also holds a line of another project
C16_Witness ==
    /\ IsDeploymentsRead /\ LastRead.status = 200
    /\ LastRead.data # <<>>
    /\ \E k \in DOMAIN LinesRead :
          /\ LinesRead[k].kind = "object"
          /\ normalizeProject(OrElse(LinesRead[k].projectName, <<>>))
                \notin {<<>>, resolveProjectSlug(LastRead.query.project)}

Malformed(line) == line.kind \in {"text", "partial", "null", "badtype"}

WithoutMalformed(file) == SelectSeq(file, LAMBDA line : ~Malformed(line))

\* the records without the position of their line
Positionless(data) ==
    [i \in DOMAIN data |->
        IF "logId" \in DOMAIN data[i]
        THEN [data[i] EXCEPT !.logId = [projectSlug |-> data[i].logId.projectSlug,
                                        stableEpoch |-> data[i].logId.stableEpoch, index |-> 0]]
        ELSE [data[i] EXCEPT !.line = 0]]

\* what the read returns for the same files without their malformed lines
DataWithoutMalformed ==
    LET source == Source(LastRead.source.sshOk,
                         WithoutMalformed(LastRead.source.remoteFile),
                         IF LastRead.source.localFile.present
                         THEN Some(WithoutMalformed(LastRead.source.localFile.value))
                         ELSE Absent)
    IN  IF LastRead.route = "/v1/logs"
        THEN getRequestLogs(LastRead.limit, LastRead.query.project, boundOf(LastRead.query.start),
                            boundOf(LastRead.query.end), source, LastRead.now).data
        ELSE IF LastRead.route = "/v1/deployments"
             THEN getDeployments(LastRead.limit, LastRead.query.project, source).data
        ELSE LET data == getDeployments(LatestLimit, LastRead.query.project, source).data
             IN  SubSeq(data, 1, Min(1, Len(data)))

\* C17: a malformed line never aborts a read: it is dropped, no exception leaves the
\* parser, and the well-formed lines before and after it are processed as without it.
C17_MalformedLineDropped ==
    (limitRead # <<>> /\ LastRead.read)
        => /\ LastRead.status = 500 <=> (RemoteConfigured /\ ~LastRead.source.sshOk)
           /\ (LastRead.status = 200 /\ \E k \in DOMAIN LinesRead : Malformed(LinesRead[k]))
                 => Positionless(LastRead.data) = Positionless(DataWithoutMalformed)

\* a read returned the record of a well-formed line that follows a malformed one
C17_Witness ==
    /\ limitRead # <<>> /\ LastRead.status = 200
    /\ LastRead.data # <<>>
    /\ Len(LinesRead) >= 2
    /\ Malformed(LinesRead[1])
    /\ ~Malformed(LinesRead[Len(LinesRead)])

\* C18: with a remote host configured for the kind of log, every read goes remote and an
\* ssh failure is answered with an error, never with the local file or an empty result;
\* without a remote host a missing local file gives an empty result and no error.
C18_SourceFailuresByMode ==
    (limitRead # <<>> /\ LastRead.read)
        => /\ RemoteConfigured
              => IF LastRead.source.sshOk
                 THEN LastRead.status = 200 /\ LastRead.mode = "remote"
                 ELSE LastRead.status = 500 /\ LastRead.data = <<>>
           /\ (~RemoteConfigured /\ ~LastRead.source.localFile.present)
              => LastRead.status = 200 /\ LastRead.mode = "local" /\ LastRead.data = <<>>

\* ssh failed on a read that is configured remote while the local file holds lines
C18_Witness ==
    /\ limitRead # <<>> /\ LastRead.read
    /\ RemoteConfigured /\ ~LastRead.source.sshOk
    /\ LastRead.source.localFile.present /\ LastRead.source.localFile.value # <<>>
    /\ LastRead.status = 500

----------------------------------------------------------------------------
(* The order and the number of the deployments returned: claims *)

\* the line belongs to the project the read is for
Belongs(line) ==
    /\ line.kind = "object"
    /\ normalizeProject(OrElse(line.projectName, <<>>)) = resolveProjectSlug(LastRead.query.project)

\* the lines of the project, in the order of the file
MatchingIn(lines) == SelectSeq(lines, Belongs)

\* what identifies the line of a record: the deploymentId as the read returns it, and
\* the trackedAt
KeyOfLine(line) ==
    <<toUpperCase(OrElse(line.deploymentId, DeploymentIdUnknown)), line.trackedAt>>

KeyOfRecord(record) == <<record.deploymentId, record.trackedAt>>

\* the first n of the lines taken from the last one backwards
LastFirst(lines, n) ==
    [i \in 1..Min(n, Len(lines)) |-> KeyOfLine(lines[Len(lines) + 1 - i])]

\* the lines a read gets: the whole file in local mode, in remote mode the window of
\* tail -n max(limit * 5, 100)
WindowRead ==
    IF RemoteConfigured
    THEN tail(LinesRead, Max(LastRead.limit * TrackerTailMultiplier, TrackerTailLines))
    ELSE LinesRead

IsTrackerRead == IsDeploymentsRead /\ LastRead.status = 200

\* C25 as stated: a deployments read returns the records of the project's lines of the
\* log, from the last line backwards, truncated to limit; /v1/deployments/latest returns
\* the record of the last line of the project in the log.
C25_ReverseOrderOfTheLog ==
    IsTrackerRead =>
        [i \in DOMAIN LastRead.data |-> KeyOfRecord(LastRead.data[i])]
            = LastFirst(MatchingIn(LinesRead), LastRead.limit)

\* C25: a deployments read returns the records of the project's lines among the lines
\* read (the whole file in local mode, the last max(5 * limit, 100) lines in remote
\* mode), from the last line backwards, truncated to limit, so /v1/deployments/latest
\* returns the record of the last such line, whatever trackedAt the lines carry.
C25_ReverseOrderOfTheLinesRead ==
    IsTrackerRead =>
        [i \in DOMAIN LastRead.data |-> KeyOfRecord(LastRead.data[i])]
            = LastFirst(MatchingIn(WindowRead), LastRead.limit)

\* /v1/deployments/latest returned the record of the last line of the project although
\* an earlier line of the project carries a later trackedAt
C25_Witness ==
    /\ IsTrackerRead /\ LastRead.route = "/v1/deployments/latest"
    /\ Len(LastRead.data) = 1
    /\ LastRead.data[1].trackedAt = Some(TrackedEarly)
    /\ \E k \in DOMAIN LinesRead : Belongs(LinesRead[k]) /\ LinesRead[k].trackedAt = Some(TrackedLate)

----------------------------------------------------------------------------
(* Signature verification: claim *)

\* the header is sha256= followed by the 64 hexadecimal digits of the HMAC-SHA256, under the
\* configured secret, of the body as it was received
SignatureOfRawBody(req) ==
    LET header == trim(OrElse(req.signature, <<>>))
        signatureHex == slice(header, Len(Sha256Prefix))
    IN  /\ startsWith(header, Sha256Prefix)
        /\ Len(signatureHex) = SignatureHexLength
        /\ IsHexString(signatureHex)
        /\ toLowerCase(signatureHex) = hmacSha256Hex(githubWebhookSecret, RawBodyOf(req))

\* C19: in signature mode a webhook passes the signature check if and only if its header
\* is sha256=<64 hex digits> equal to the HMAC-SHA256 of the exact JSON body as received:
\* a body that differs in a single byte, or a digest of another length, fails.
C19_SignatureOfExactBody ==
    (Handled /\ SignatureMode /\ autoDeployEnabled /\ Req.body.isObject)
        => (Rep.status # 401 <=> SignatureOfRawBody(Req))

----------------------------------------------------------------------------
(* Shell quoting: claim *)

ShellRan == shellRun # <<>>

LastRun == shellRun[1]

\* the commands of the deploy script, with every value as one field
ExpectedCommands(project, branch) ==
    <<<<<<"s", "e", "t">>, <<"-", "e", "u", "o">>, <<"p", "i", "p", "e", "f", "a", "i", "l">>>>,
      <<<<"c", "d">>, project.repoPath>>,
      <<<<"g", "i", "t">>, <<"f", "e", "t", "c", "h">>, <<"o", "r", "i", "g", "i", "n">>, branch>>,
      <<<<"g", "i", "t">>, <<"c", "h", "e", "c", "k", "o", "u", "t">>, branch, <<"|", "|">>, <<"g", "i", "t">>, <<"c", "h", "e", "c", "k", "o", "u", "t">>, <<"-", "b">>, branch, <<"o", "r", "i", "g", "i", "n", "/">> \o branch>>,
      <<<<"g", "i", "t">>, <<"r", "e", "s", "e", "t">>, <<"-", "-", "h", "a", "r", "d">>, <<"o", "r", "i", "g", "i", "n", "/">> \o branch>>,
      <<<<"i", "f">>, <<"[", "[">>, <<"-", "x">>, <<".", "/", "d", "e", "p", "l", "o", "y", "-", "w", "i", "t", "h", "-", "t", "r", "a", "c", "k", ".", "s", "h">>, <<"]", "]", ";">>, <<"t", "h", "e", "n">>>>,
      <<<<".", "/", "d", "e", "p", "l", "o", "y", "-", "w", "i", "t", "h", "-", "t", "r", "a", "c", "k", ".", "s", "h">>, <<"b", "a", "s", "h">>, <<"-", "l", "c">>, project.deployCommand>>,
      <<<<"e", "l", "s", "e">>>>,
      <<<<"b", "a", "s", "h">>, <<"-", "l", "c">>, project.deployCommand>>,
      <<<<"f", "i">>>>>>

\* C20: shell quoting round-trips: sh parses the word shellQuote(s) as exactly one argument
\* equal to s, for every string s, single quotes included; and the script quoted as a
\* whole for ssh arrives at the remote bash as the one argument it was, with every quoted
\* value of the script again one argument equal to the value.
C20_ShellQuoteRoundTrips ==
    ShellRan =>
        /\ ~LastRun.commands.error
        /\ LastRun.kind = "echo" => LastRun.commands.commands = <<<<Echo, LastRun.input>>>>
        /\ LastRun.kind = "deploy" =>
              /\ LastRun.script = Some(buildAutoDeployScript(LastRun.project, LastRun.input))
              /\ LastRun.commands.commands = ExpectedCommands(LastRun.project, LastRun.input)

\* the script of a branch with a single quote in its name went through ssh, for a project
\* whose path and command hold quotes themselves
C20_Witness ==
    /\ ShellRan /\ LastRun.kind = "deploy" /\ LastRun.remote
    /\ "'" \in Range(LastRun.input)
    /\ "'" \in Range(LastRun.project.repoPath)
    /\ "'" \in Range(LastRun.project.deployCommand)
    /\ Len(LastRun.commands.commands) = 10

----------------------------------------------------------------------------
(* Project slugs: claim *)

SlugAlphabet == LowerAlnum \cup {"-"}

\* only [a-z0-9-], no "-" at either end, no "--"
WellFormedSlug(slug) ==
    /\ \A i \in DOMAIN slug : slug[i] \in SlugAlphabet
    /\ slug # <<>> => slug[1] # "-" /\ slug[Len(slug)] # "-"
    /\ \A i \in 1..(Len(slug) - 1) : ~(slug[i] = "-" /\ slug[i + 1] = "-")

\* C22: normalizeProject is total and idempotent: the slug a reply names for the project
\* asked for holds only [a-z0-9-], has no leading or trailing "-" and no "--", and
\* normalizing it again gives the same slug.
C22_SlugWellFormedIdempotent ==
    (limitRead # <<>> /\ LastRead.query.project.present)
        => LET s == LastRead.query.project.value
           IN  /\ LastRead.status \in {200, 400}
               /\ LastRead.status = 400 => LastRead.project = normalizeProject(s)
               /\ (LastRead.status = 200 /\ normalizeProject(s) # <<>>)
                     => LastRead.project = normalizeProject(s)
               /\ WellFormedSlug(LastRead.project)
               /\ normalizeProject(LastRead.project) = LastRead.project

\* a name with an upper-case letter and, between two letters, a run of two other
\* characters, one of them a blank, was asked for, and the reply names a slug with a
\* single "-"
C22_Witness ==
    /\ limitRead # <<>> /\ LastRead.query.project.present
    /\ LastRead.query.project.value = <<"B", "_", " ", "a">>
    /\ LastRead.status = 400
    /\ LastRead.project = <<"b", "-", "a">>

----------------------------------------------------------------------------
(* The registry: claim *)

\* C29: every project loaded into the registry has a non-empty projectSlug, so no
\* configured project matches a line of the access log through the text heuristic by an
\* empty slug, which is a substring of every line.
C29_LoadedSlugsNonEmpty ==
    KeepsEveryLine =>
        /\ \A i \in DOMAIN autoDeployProjects : autoDeployProjects[i].projectSlug # <<>>
        /\ \A k \in DOMAIN LinesRead :
              (Attributable(LinesRead[k]) /\ ~ValidHint(LinesRead[k]) /\ HostMatchSlugs(LinesRead[k]) = {})
                  => <<>> \notin TextMatchSlugs(LinesRead[k])

----------------------------------------------------------------------------
(* Screenshot capture: claim *)

InFlight(c) == captures[c].process = "running"

\* C21: screenshot capture is de-duplicated per cache key: at most one capture subprocess
\* per key is in flight, and a handler that reaches the lookup of the map while a capture
\* of its key is in flight awaits that capture and spawns none.
C21_Step ==
    /\ \A c, d \in DOMAIN captures' :
          (c # d /\ captures'[c].key = captures'[d].key /\ captures'[c].process = "running")
              => captures'[d].process # "running"
    /\ \A r \in DOMAIN screenshotRequests :
          (/\ screenshotRequests[r].pc = "decide"
           /\ screenshotRequests[r].ready
           /\ screenshotRequests[r].refresh \/ ~screenshotRequests[r].alreadyCaptured
           /\ screenshotRequests'[r].pc # "decide"
           /\ \E c \in DOMAIN captures : InFlight(c) /\ captures[c].key = screenshotRequests[r].key)
              => /\ captures' = captures
                 /\ screenshotRequests'[r].pc = "await"
                 /\ screenshotRequests'[r].job \in DOMAIN captures
                 /\ InFlight(screenshotRequests'[r].job)
                 /\ captures[screenshotRequests'[r].job].key = screenshotRequests[r].key

C21_OneCaptureInFlightPerKey == [][C21_Step]_vars

\* two handlers await the one capture of their key that is in flight, the second of them
\* asked for a refresh
C21_Witness ==
    \E r, q \in DOMAIN screenshotRequests :
        /\ r < q
        /\ screenshotRequests[r].pc = "await" /\ screenshotRequests[q].pc = "await"
        /\ screenshotRequests[r].key = screenshotRequests[q].key
        /\ screenshotRequests[r].job = screenshotRequests[q].job
        /\ screenshotRequests[q].refresh
        /\ InFlight(screenshotRequests[r].job)
        /\ Len(captures) = 1

====
